---------------------------- MODULE Spec2Model ----------------------------
(***************************************************************************)
(* A state-machine model of mwparserfromhell's pure-Python wikicode        *)
(* tokenizer (mwparserfromhell/parser/tokenizer.py).                       *)
(*                                                                         *)
(* Strings are sequences of one-character strings, so that splitting,      *)
(* joining, lower-casing and stripping are computed as the code computes   *)
(* them.  The tokenizer's fields (_text, _head, _stacks, _global, _depth,  *)
(* _cycles) are variables; the Python call stack is the variable cs, one   *)
(* record per suspended function activation; a state of the model is       *)
(* the head of an iteration of one of the two scanning loops (_parse and  *)
(* _really_parse_tag), and one action is one iteration of the loop or one  *)
(* handler called from it, with everything it calls up to the next loop    *)
(* head.                                                                   *)
(***************************************************************************)
EXTENDS Integers, Sequences, FiniteSets, TLC

VARIABLES input, text, head, stacks, global, depth, cycles, cs, pc, out, first

vars == <<input, text, head, stacks, global, depth, cycles, cs, pc, out, first>>

(***************************************************************************)
(* Strings                                                                 *)
(***************************************************************************)
Str1(c) == <<c>>

\* c * n, which is empty for an n below 1
Repeat(c, n) == [i \in 1..(IF n < 0 THEN 0 ELSE n) |-> c]

\* "".join(strs)
RECURSIVE Join(_)
Join(strs) ==
    IF strs = <<>> THEN <<>>
    ELSE IF Len(strs) = 1 THEN strs[1]
    ELSE Join(SubSeq(strs, 1, Len(strs) \div 2))
         \o Join(SubSeq(strs, Len(strs) \div 2 + 1, Len(strs)))

Min(a, b) == IF a < b THEN a ELSE b

\* Tokenizer.START and Tokenizer.END: two values equal to no segment.
START == <<"START">>
END == <<"END">>

\* Tokenizer.MARKERS without END.
MarkerChars ==
    {"{", "}", "[", "]", "<", ">", "|", "=", "&", "#", "*", ";", ":",
     "/", "-", "!", "\n"}

\* `this in self.MARKERS`.
MARKERS == {Str1(c) : c \in MarkerChars} \cup {END}

MAX_DEPTH == 40
MAX_CYCLES == 100000

SpaceChars == {" ", "\t", "\n", "\r", "\f"}

\* str.isspace(): at least one character and all of them whitespace.
isspace(str) == str # <<>> /\ \A i \in 1..Len(str) : str[i] \in SpaceChars

UpperChars == <<"A", "B", "C", "D", "E", "F", "G", "H", "I", "J", "K", "L", "M",
                "N", "O", "P", "Q", "R", "S", "T", "U", "V", "W", "X", "Y", "Z">>
LowerChars == <<"a", "b", "c", "d", "e", "f", "g", "h", "i", "j", "k", "l", "m",
                "n", "o", "p", "q", "r", "s", "t", "u", "v", "w", "x", "y", "z">>

lower_char(c) ==
    IF \E i \in 1..26 : UpperChars[i] = c
    THEN LowerChars[CHOOSE i \in 1..26 : UpperChars[i] = c]
    ELSE c

\* str.lower()
lower(str) == [i \in 1..Len(str) |-> lower_char(str[i])]

\* str.rstrip()
RECURSIVE rstrip(_)
rstrip(str) ==
    IF str # <<>> /\ str[Len(str)] \in SpaceChars
    THEN rstrip(SubSeq(str, 1, Len(str) - 1))
    ELSE str

\* re.split on a pattern that is one character of seps in a group, with the
\* empty segments left out: every character of seps is a segment of its
\* own, every maximal run of other characters is one segment.
split(str, seps) ==
    LET starts == {i \in 1..Len(str) :
                      i = 1 \/ str[i] \in seps \/ str[i - 1] \in seps}
        start(k) == CHOOSE i \in starts : Cardinality({j \in starts : j <= i}) = k
        end(k) == IF k = Cardinality(starts) THEN Len(str) ELSE start(k + 1) - 1
    IN [k \in 1..Cardinality(starts) |-> SubSeq(str, start(k), end(k))]

\* [segment for segment in self.regex.split(text) if segment]
regex_split(str) == split(str, MarkerChars)

\* Tokenizer.tag_splitter.split(this): split at every whitespace, quote or
\* backslash character.  The empty chunks the regex yields are left out:
\* _handle_tag_chunk returns at once on them.
TagSplitChars == SpaceChars \cup {"\"", "\\"}

tag_splitter_split(str) == split(str, TagSplitChars)

(***************************************************************************)
(* Contexts (mwparserfromhell/parser/contexts.py): a context is the set of *)
(* the flags that are set in the bitmask.                                  *)
(***************************************************************************)
TEMPLATE_NAME == {"TEMPLATE_NAME"}
TEMPLATE_PARAM_KEY == {"TEMPLATE_PARAM_KEY"}
TEMPLATE_PARAM_VALUE == {"TEMPLATE_PARAM_VALUE"}
TEMPLATE == TEMPLATE_NAME \cup TEMPLATE_PARAM_KEY \cup TEMPLATE_PARAM_VALUE
ARGUMENT_NAME == {"ARGUMENT_NAME"}
ARGUMENT_DEFAULT == {"ARGUMENT_DEFAULT"}
ARGUMENT == ARGUMENT_NAME \cup ARGUMENT_DEFAULT
WIKILINK_TITLE == {"WIKILINK_TITLE"}
WIKILINK_TEXT == {"WIKILINK_TEXT"}
WIKILINK == WIKILINK_TITLE \cup WIKILINK_TEXT
HeadingFlags ==
    <<"HEADING_LEVEL_1", "HEADING_LEVEL_2", "HEADING_LEVEL_3",
      "HEADING_LEVEL_4", "HEADING_LEVEL_5", "HEADING_LEVEL_6">>
\* HEADING_LEVEL_1 << n
HEADING_LEVEL(n) == {HeadingFlags[n + 1]}
HEADING == {HeadingFlags[i] : i \in 1..6}
COMMENT == {"COMMENT"}
TAG_OPEN == {"TAG_OPEN"}
TAG_ATTR == {"TAG_ATTR"}
TAG_BODY == {"TAG_BODY"}
TAG_CLOSE == {"TAG_CLOSE"}
TAG == TAG_OPEN \cup TAG_ATTR \cup TAG_BODY \cup TAG_CLOSE
HAS_TEXT == {"HAS_TEXT"}
FAIL_ON_TEXT == {"FAIL_ON_TEXT"}
FAIL_NEXT == {"FAIL_NEXT"}
FAIL_ON_LBRACE == {"FAIL_ON_LBRACE"}
FAIL_ON_RBRACE == {"FAIL_ON_RBRACE"}
FAIL_ON_EQUALS == {"FAIL_ON_EQUALS"}
SAFETY_CHECK ==
    HAS_TEXT \cup FAIL_ON_TEXT \cup FAIL_NEXT \cup FAIL_ON_LBRACE
    \cup FAIL_ON_RBRACE \cup FAIL_ON_EQUALS
GL_HEADING == {"GL_HEADING"}

\* a & b (as a truth value), a | b, a ^ b
And(a, b) == (a \cap b) # {}
Or(a, b) == a \cup b
Xor(a, b) == (a \ b) \cup (b \ a)

\* _TagOpenData.CX_*
CX_NAME == {"CX_NAME"}
CX_ATTR_READY == {"CX_ATTR_READY"}
CX_ATTR_NAME == {"CX_ATTR_NAME"}
CX_ATTR_VALUE == {"CX_ATTR_VALUE"}
CX_QUOTED == {"CX_QUOTED"}
CX_NEED_SPACE == {"CX_NEED_SPACE"}
CX_NEED_EQUALS == {"CX_NEED_EQUALS"}
CX_NEED_QUOTE == {"CX_NEED_QUOTE"}
CX_ATTR == CX_ATTR_NAME \cup CX_ATTR_VALUE

\* _TagOpenData.__init__
TagOpenData ==
    [context |-> CX_NAME, padding_buffer |-> <<>>, reset |-> 0,
     ignore_quote |-> FALSE]

(***************************************************************************)
(* Tokens (mwparserfromhell/parser/tokens.py)                              *)
(***************************************************************************)
Text(t) == [type |-> "Text", text |-> t]
Tok(name) == [type |-> name]
HeadingStart(l) == [type |-> "HeadingStart", level |-> l]
HTMLEntityHex(c) == [type |-> "HTMLEntityHex", char |-> c]
TagOpenOpen(b) == [type |-> "TagOpenOpen", showtag |-> b]
TagCloseOpen(p) == [type |-> "TagCloseOpen", padding |-> p]
TagCloseSelfclose(p) == [type |-> "TagCloseSelfclose", padding |-> p]
TagAttrStart(pf, pb, pa) ==
    [type |-> "TagAttrStart", pad_first |-> pf, pad_before_eq |-> pb,
     pad_after_eq |-> pa]


(***************************************************************************)
(* The tokenizer's state as one record, so that the methods are operators  *)
(* from state to state.  pc is "init" before tokenize is called, "run"     *)
(* during the call, "done" when it has returned out, "badroute" when a     *)
(* BadRoute left tokenize uncaught and "error" when Python raised an       *)
(* IndexError (a pop or a frame access on an empty list).                  *)
(***************************************************************************)
Cur ==
    [text |-> text, head |-> head, stacks |-> stacks, global |-> global,
     depth |-> depth, cycles |-> cycles, cs |-> cs, pc |-> pc, out |-> out]

Upd(t) ==
    /\ text' = t.text
    /\ head' = t.head
    /\ stacks' = t.stacks
    /\ global' = t.global
    /\ depth' = t.depth
    /\ cycles' = t.cycles
    /\ cs' = t.cs
    /\ pc' = t.pc
    /\ out' = t.out

IndexError(s) == [s EXCEPT !.pc = IF @ = "run" THEN "error" ELSE @]

Frame(context) == [stack |-> <<>>, context |-> context, textbuffer |-> <<>>]

\* self._stacks[-1]
Top(s) == s.stacks[Len(s.stacks)]

SetTop(s, frame) ==
    IF s.stacks = <<>> THEN IndexError(s)
    ELSE [s EXCEPT !.stacks[Len(s.stacks)] = frame]

\* the _stack, _context and _textbuffer properties
_stack(s) == IF s.stacks = <<>> THEN <<>> ELSE Top(s).stack
_context(s) == IF s.stacks = <<>> THEN {} ELSE Top(s).context
_textbuffer(s) == IF s.stacks = <<>> THEN <<>> ELSE Top(s).textbuffer

set_context(s, value) ==
    IF s.stacks = <<>> THEN IndexError(s)
    ELSE SetTop(s, [Top(s) EXCEPT !.context = value])

_push(s, context) ==
    [s EXCEPT !.stacks = Append(@, Frame(context)),
              !.depth = @ + 1,
              !.cycles = @ + 1]

_push_textbuffer(s) ==
    IF s.stacks = <<>> THEN IndexError(s)
    ELSE IF Top(s).textbuffer # <<>>
         THEN SetTop(s, [Top(s) EXCEPT
                             !.stack = Append(@, Text(Join(Top(s).textbuffer))),
                             !.textbuffer = <<>>])
         ELSE s

\* _pop returns the popped token list: the result is [s, stack].
_pop(s, keep_context) ==
    LET removed(s2) == [s2 EXCEPT !.depth = @ - 1,
                                  !.stacks = SubSeq(@, 1, Len(@) - 1)]
        popped(s1) ==
            IF s1.stacks = <<>> THEN [s |-> s1, stack |-> <<>>]
            ELSE [s |-> IF keep_context
                        THEN set_context(removed(s1), Top(s1).context)
                        ELSE removed(s1),
                  stack |-> Top(s1).stack]
    IN popped(_push_textbuffer(s))

_can_recurse(s) == s.depth < MAX_DEPTH /\ s.cycles < MAX_CYCLES

\* self._stack.extend(tokenlist), at the front if first
extend(s, tokenlist, at_front) ==
    IF s.stacks = <<>> THEN s
    ELSE SetTop(s, [Top(s) EXCEPT
                        !.stack = IF at_front THEN tokenlist \o @
                                  ELSE @ \o tokenlist])

_write(s, token) == extend(_push_textbuffer(s), <<token>>, FALSE)

_write_first(s, token) == extend(_push_textbuffer(s), <<token>>, TRUE)

_write_text(s, str) ==
    IF s.stacks = <<>> THEN IndexError(s)
    ELSE SetTop(s, [Top(s) EXCEPT !.textbuffer = Append(@, str)])

\* _write_all without lines 157-158: the list is appended as it is, a leading
\* Text included.
_write_all_unmerged(s, tokenlist) == extend(_push_textbuffer(s), tokenlist, FALSE)

_write_all(s, tokenlist) ==
    IF tokenlist # <<>> /\ tokenlist[1].type = "Text"
    THEN extend(_push_textbuffer(_write_text(s, tokenlist[1].text)),
                Tail(tokenlist), FALSE)
    ELSE extend(_push_textbuffer(s), tokenlist, FALSE)

\* self._write_all(self._pop()) with the result p of the _pop
write_all_popped(p) == _write_all(p.s, p.stack)

_write_text_then_stack(s, str) ==
    LET written(p) ==
            IF p.stack # <<>> THEN _write_all(_write_text(p.s, str), p.stack)
            ELSE _write_text(p.s, str)
        back(s2) == [s2 EXCEPT !.head = @ - 1]
    IN back(written(_pop(s, FALSE)))

\* _read(delta) with wrap = False and strict = False; the one strict read,
\* in _really_parse_entity, fails the route where this returns END.
_read(s, delta) ==
    LET index == s.head + delta
    IN IF index < 0 THEN START
       ELSE IF index < Len(s.text) THEN s.text[index + 1]
       ELSE END

(***************************************************************************)
(* The Python call stack.  cs holds one record per function activation     *)
(* that is waiting for a call to return, and on top the record of the      *)
(* loop that is running: "_parse" or "_really_parse_tag".  A value         *)
(* returned by _parse is [stack, level]: level is 0 for a plain token list *)
(* and the heading level for the pair _handle_heading_end returns.         *)
(***************************************************************************)
TopAct(s) == s.cs[Len(s.cs)]
\* Each record also notes, as `frames`, the number of frames on the route
\* stack when the activation began: the program keeps no such count, it is
\* there to state what a failed route leaves behind.
PushAct(s, a) ==
    [s EXCEPT !.cs = Append(@, a @@ [frames |-> Len(s.stacks)])]
PopAct(s) == [s EXCEPT !.cs = SubSeq(@, 1, Len(@) - 1)]

List(tokens) == [stack |-> tokens, level |-> 0]

\* A value of the wrong shape reached a caller (a TypeError or ValueError).
TypeError(s) == [s EXCEPT !.pc = IF @ = "run" THEN "error" ELSE @]

\* _parse(context) called with push=True: lines 673-674, then the loop.
call_parse(s, context) == PushAct(_push(s, context), [fn |-> "_parse"])

\* self._head += 1
Advance(s) == [s EXCEPT !.head = @ + 1]

\* The statement after a sub-scanner call in the calling loop: `self._head += 1`
\* at the end of the iteration of _parse (line 752) or _really_parse_tag
\* (line 481, once the chunks of the segment are used up).
Finish(s) ==
    IF s.cs # <<>> /\ TopAct(s).fn = "_really_parse_tag" /\ TopAct(s).chunks # <<>>
    THEN s
    ELSE [s EXCEPT !.head = @ + 1]

\* tokenize returns what the outermost _parse returns.
tokenize_return(s, v) ==
    [s EXCEPT !.pc = IF @ = "run" THEN "done" ELSE @, !.out = v.stack]

\* The number of consecutive segments equal to c from the head on
\* (`while self._read() == c: self._head += 1`).
RECURSIVE count_run(_, _)
count_run(s, c) ==
    IF _read(s, 0) = Str1(c) THEN 1 + count_run([s EXCEPT !.head = @ + 1], c)
    ELSE 0

RECURSIVE Return(_, _), Raise(_)

\* `return self._pop()` in _parse with the result p of the _pop; with a
\* level, `return self._pop(), level`.
return_popped(p, level) == Return(p.s, [stack |-> p.stack, level |-> level])

\* return self._pop()
pop_return(s) == return_popped(_pop(s, FALSE), 0)

\* _fail_route: pop, then raise BadRoute in the running activation.
_fail_route(s) == Raise(_pop(s, FALSE).s)

(***************************************************************************)
(* Templates and arguments                                                 *)
(***************************************************************************)
\* _parse_template up to its call of _parse.
call_parse_template(s, braces) ==
    call_parse(PushAct(s, [fn |-> "_parse_template", braces |-> braces,
                           reset |-> s.head]),
               TEMPLATE_NAME)

\* _parse_argument up to its call of _parse.
call_parse_argument(s, braces) ==
    call_parse(PushAct(s, [fn |-> "_parse_argument", braces |-> braces,
                           reset |-> s.head]),
               ARGUMENT_NAME)

\* The head of `while braces:` in _parse_template_or_argument, braces > 0.
template_or_argument_loop(s, braces) ==
    IF braces = 1 THEN Finish(_write_text_then_stack(s, <<"{">>))
    ELSE IF braces = 2 THEN call_parse_template(s, braces)
    ELSE call_parse_argument(s, braces)

\* Line 224 without the test of line 223: the flag is toggled in any context.
clear_fail_next_always(s) == set_context(s, Xor(_context(s), FAIL_NEXT))

\* After the loop: lines 222-224.
\* `if self._context & contexts.FAIL_NEXT: self._context ^= contexts.FAIL_NEXT`
clear_fail_next(s) ==
    IF And(_context(s), FAIL_NEXT)
    THEN set_context(s, Xor(_context(s), FAIL_NEXT))
    ELSE s

template_or_argument_exit(s) ==
    Finish(clear_fail_next(write_all_popped(_pop(s, FALSE))))

_parse_template_or_argument(s) ==
    LET braces(n) ==
            template_or_argument_loop(
                _push([s EXCEPT !.head = @ + 2 + n], {}), 2 + n)
    IN braces(count_run([s EXCEPT !.head = @ + 2], "{"))

\* The rest of the loop body after a template or an argument, with the
\* braces that are left: lines 209, 212 and 216, then 219-221.
template_or_argument_next(s, braces) ==
    IF braces = 0 THEN template_or_argument_exit(s)
    ELSE template_or_argument_loop([s EXCEPT !.head = @ + 1], braces)

\* _parse_template without line 236: no TemplateClose is written.
parse_template_unclosed(s, a, v) ==
    IF v.level # 0 THEN TypeError(s)
    ELSE template_or_argument_next(
             _write_all(_write_first(s, Tok("TemplateOpen")), v.stack),
             a.braces - 2)

\* _parse_template after _parse has returned v: lines 234-236.
parse_template_return(s, a, v) ==
    IF v.level # 0 THEN TypeError(s)
    ELSE template_or_argument_next(
             _write(_write_all(_write_first(s, Tok("TemplateOpen")), v.stack),
                    Tok("TemplateClose")),
             a.braces - 2)

\* _parse_template on BadRoute (head reset, re-raise), caught in
\* _parse_template_or_argument: lines 207-208 and 217-218.
parse_template_fail(s, a) ==
    Finish(_write_text_then_stack([s EXCEPT !.head = a.reset],
                                  Repeat("{", a.braces)))

parse_argument_return(s, a, v) ==
    IF v.level # 0 THEN TypeError(s)
    ELSE template_or_argument_next(
             _write(_write_all(_write_first(s, Tok("ArgumentOpen")), v.stack),
                    Tok("ArgumentClose")),
             a.braces - 3)

\* _parse_template_or_argument without lines 214-216: when the argument fails
\* the braces are written as text, no template is tried.
parse_argument_fail_literal(s, a) ==
    Finish(_write_text_then_stack([s EXCEPT !.head = a.reset],
                                  Repeat("{", a.braces)))

\* _parse_argument on BadRoute, caught at line 213: try a template.
parse_argument_fail(s, a) ==
    call_parse_template([s EXCEPT !.head = a.reset], a.braces)

\* self._context |= flag; self._context ^= flag
set_flag(s, flag) == set_context(s, Or(_context(s), flag))
toggle_flag(s, flag) == set_context(s, Xor(_context(s), flag))

\* self._push(self._context)
push_same(s) == _push(s, _context(s))

_handle_template_param(s) ==
    LET left(context) ==
            IF And(context, TEMPLATE_NAME) THEN toggle_flag(s, TEMPLATE_NAME)
            ELSE IF And(context, TEMPLATE_PARAM_VALUE)
            THEN toggle_flag(s, TEMPLATE_PARAM_VALUE)
            ELSE IF And(context, TEMPLATE_PARAM_KEY)
            THEN write_all_popped(_pop(s, TRUE))
            ELSE s
    IN push_same(_write(set_flag(left(_context(s)), TEMPLATE_PARAM_KEY),
                        Tok("TemplateParamSeparator")))

\* _handle_template_param_value without line 266: TEMPLATE_PARAM_KEY stays
\* set beside TEMPLATE_PARAM_VALUE.
handle_template_param_value_keeping_key(s) ==
    _write(set_flag(write_all_popped(_pop(s, TRUE)), TEMPLATE_PARAM_VALUE),
           Tok("TemplateParamEquals"))

_handle_template_param_value(s) ==
    _write(set_flag(toggle_flag(write_all_popped(_pop(s, TRUE)),
                                TEMPLATE_PARAM_KEY),
                    TEMPLATE_PARAM_VALUE),
           Tok("TemplateParamEquals"))

\* _handle_template_end without lines 271-272: the frame of a pending key is
\* not written to the template's before the pop.
handle_template_end_uncommitted(s) == _pop([s EXCEPT !.head = @ + 1], FALSE)

\* The result is what _pop returns: [s, stack].
_handle_template_end(s) ==
    LET skip(s1) == [s1 EXCEPT !.head = @ + 1]
    IN IF And(_context(s), TEMPLATE_PARAM_KEY)
       THEN _pop(skip(write_all_popped(_pop(s, TRUE))), FALSE)
       ELSE _pop(skip(s), FALSE)

_handle_argument_separator(s) ==
    _write(set_flag(toggle_flag(s, ARGUMENT_NAME), ARGUMENT_DEFAULT),
           Tok("ArgumentSeparator"))

_handle_argument_end(s) == _pop([s EXCEPT !.head = @ + 2], FALSE)

(***************************************************************************)
(* Wikilinks                                                               *)
(***************************************************************************)
_parse_wikilink(s) ==
    call_parse(PushAct([s EXCEPT !.head = @ + 2],
                       [fn |-> "_parse_wikilink", reset |-> s.head + 1]),
               WIKILINK_TITLE)

\* _parse_wikilink without its `except BadRoute`: the failure goes on to the
\* caller of _parse_wikilink.
parse_wikilink_uncaught(s, a) == Raise(s)

\* _parse_wikilink with `self._write_text("[")` at line 295.
parse_wikilink_one_bracket(s, a) ==
    Finish(_write_text([s EXCEPT !.head = a.reset], <<"[">>))

\* _parse_wikilink with `self._head = reset + 1` at line 294: the scan goes on
\* one segment further than the one after the "[[".
parse_wikilink_skipping(s, a) ==
    Finish(_write_text([s EXCEPT !.head = a.reset + 1], <<"[", "[">>))

parse_wikilink_fail(s, a) ==
    Finish(_write_text([s EXCEPT !.head = a.reset], <<"[", "[">>))

parse_wikilink_return(s, a, v) ==
    IF v.level # 0 THEN TypeError(s)
    ELSE Finish(_write(_write_all(_write(clear_fail_next(s),
                                         Tok("WikilinkOpen")),
                                  v.stack),
                       Tok("WikilinkClose")))

_handle_wikilink_separator(s) ==
    _write(set_flag(toggle_flag(s, WIKILINK_TITLE), WIKILINK_TEXT),
           Tok("WikilinkSeparator"))

_handle_wikilink_end(s) == _pop([s EXCEPT !.head = @ + 1], FALSE)

(***************************************************************************)
(* Headings                                                                *)
(***************************************************************************)
_parse_heading(s) ==
    LET scan(best) ==
            call_parse(PushAct([s EXCEPT !.global = Or(@, GL_HEADING),
                                         !.head = @ + best],
                               [fn |-> "_parse_heading", reset |-> s.head,
                                best |-> best]),
                       HEADING_LEVEL(Min(best - 1, 5)))
    IN scan(1 + count_run([s EXCEPT !.head = @ + 1], "="))

\* _parse_heading without the `finally` of lines 336-337.
leave_heading_undone(s) == s

\* self._global ^= contexts.GL_HEADING
leave_heading(s) == [s EXCEPT !.global = Xor(@, GL_HEADING)]

parse_heading_fail(s, a) ==
    Finish(leave_heading(_write_text([s EXCEPT !.head = a.reset + a.best - 1],
                                     Repeat("=", a.best))))

\* `if level < best: self._write_text("=" * (best - level))`
write_difference(s, best, level) ==
    IF level < best THEN _write_text(s, Repeat("=", best - level)) ELSE s

parse_heading_return(s, a, v) ==
    IF v.level = 0 THEN TypeError(s)
    ELSE Finish(leave_heading(
             _write(_write_all(write_difference(_write(s, HeadingStart(v.level)),
                                                a.best, v.level),
                               v.stack),
                    Tok("HeadingEnd"))))

\* int(log(context / HEADING_LEVEL_1, 2)) + 1 for a context that holds
\* heading flags only: the number of its (highest) heading flag.
current_level(context) ==
    IF And(context, HEADING)
    THEN CHOOSE n \in 1..6 :
            /\ HeadingFlags[n] \in context
            /\ \A m \in 1..6 : HeadingFlags[m] \in context => m <= n
    ELSE 1

\* _handle_heading_end with `level = min(best, 6)` at line 348.
handle_heading_end_closing_only(s) ==
    LET scan(best) ==
            call_parse(PushAct([s EXCEPT !.head = @ + best],
                               [fn |-> "_handle_heading_end",
                                reset |-> s.head, best |-> best,
                                level |-> Min(best, 6)]),
                       _context(s))
    IN scan(1 + count_run([s EXCEPT !.head = @ + 1], "="))

_handle_heading_end(s) ==
    LET scan(best) ==
            call_parse(PushAct([s EXCEPT !.head = @ + best],
                               [fn |-> "_handle_heading_end",
                                reset |-> s.head, best |-> best,
                                level |-> Min(current_level(_context(s)),
                                              Min(best, 6))]),
                       _context(s))
    IN scan(1 + count_run([s EXCEPT !.head = @ + 1], "="))

\* except BadRoute: this closure is the last one.  The pair is returned by
\* the _parse that called _handle_heading_end (line 731).
handle_heading_end_fail(s, a) ==
    LET back(s1) == [s1 EXCEPT !.head = a.reset + a.best - 1]
    IN return_popped(_pop(back(write_difference(s, a.best, a.level)), FALSE),
                     a.level)

\* _handle_heading_end returning `level` for `after_level` at line 360.
handle_heading_end_own_level(s, a, v) ==
    IF v.level = 0 THEN TypeError(s)
    ELSE return_popped(
             _pop(_write_all(_write_text(s, Repeat("=", a.best)), v.stack),
                  FALSE),
             a.level)

\* else: another closure was found after this one.
handle_heading_end_return(s, a, v) ==
    IF v.level = 0 THEN TypeError(s)
    ELSE return_popped(
             _pop(_write_all(_write_text(s, Repeat("=", a.best)), v.stack),
                  FALSE),
             v.level)

(***************************************************************************)
(* Comments                                                                *)
(***************************************************************************)
_parse_comment(s) ==
    call_parse(PushAct([s EXCEPT !.head = @ + 4],
                       [fn |-> "_parse_comment", reset |-> s.head + 3]),
               COMMENT)

\* _parse_comment without its `except BadRoute`: the failure goes on to the
\* caller of _parse_comment.
parse_comment_uncaught(s, a) == Raise(s)

parse_comment_fail(s, a) ==
    Finish(_write_text([s EXCEPT !.head = a.reset], <<"<", "!", "-", "-">>))

\* _parse_comment with `self._head += 1` at line 429: the scan goes on at the
\* ">" of the "-->".
parse_comment_resuming_early(s, a, v) ==
    LET skip(s1) == [s1 EXCEPT !.head = @ + 1]
    IN IF v.level # 0 THEN TypeError(s)
       ELSE Finish(skip(_write(_write_all(_write(s, Tok("CommentStart")),
                                          v.stack),
                               Tok("CommentEnd"))))

parse_comment_return(s, a, v) ==
    LET skip(s1) == [s1 EXCEPT !.head = @ + 2]
    IN IF v.level # 0 THEN TypeError(s)
       ELSE Finish(skip(_write(_write_all(_write(s, Tok("CommentStart")),
                                          v.stack),
                               Tok("CommentEnd"))))

(***************************************************************************)
(* HTML entities                                                           *)
(***************************************************************************)
Digits == {"0", "1", "2", "3", "4", "5", "6", "7", "8", "9"}
HexLetters == {"a", "b", "c", "d", "e", "f", "A", "B", "C", "D", "E", "F"}
Letters == {UpperChars[i] : i \in 1..26} \cup {LowerChars[i] : i \in 1..26}

HexChars ==
    <<"0", "1", "2", "3", "4", "5", "6", "7", "8", "9",
      "a", "b", "c", "d", "e", "f">>

digit_value(c) == (CHOOSE i \in 1..16 : HexChars[i] = lower_char(c)) - 1

\* int(str, base), cut off at 0x110000: every larger value compares to the
\* limit 0x10FFFF as that one does.
RECURSIVE int(_, _, _)
int(str, base, acc) ==
    IF str = <<>> THEN acc
    ELSE int(Tail(str), base, Min(acc * base + digit_value(Head(str)), 1114112))

\* htmlentities.entitydefs (compat): the names of the entity table.
entitydefs ==
    {<<"a", "m", "p">>, <<"l", "t">>, <<"g", "t">>, <<"n", "b", "s", "p">>}

\* _really_parse_entity gives [ok, s]: whether it returned and the state it
\* left, or the state in which it called _fail_route.
entity_fail(s) == [ok |-> FALSE, s |-> s]

\* _really_parse_entity with `if test > 0x10FFFF` at line 395.
entity_text_from_zero(s, numeric, hexadecimal, this) ==
    LET valid == IF hexadecimal THEN Digits \cup HexLetters
                 ELSE IF numeric THEN Digits
                 ELSE Digits \cup Letters
        test == int(this, IF hexadecimal THEN 16 ELSE 10, 0)
        terminated(s4) ==
            IF _read(s4, 0) # <<";">> THEN entity_fail(s4)
            ELSE IF numeric /\ test > 1114111 THEN entity_fail(s4)
            ELSE IF ~numeric /\ this \notin entitydefs THEN entity_fail(s4)
            ELSE [ok |-> TRUE,
                  s |-> _write(_write(s4, Text(this)), Tok("HTMLEntityEnd"))]
    IN IF \E i \in 1..Len(this) : this[i] \notin valid THEN entity_fail(s)
       ELSE terminated(Advance(s))

\* Lines 384-402: the text `this` of the entity, read at the head.
entity_text(s, numeric, hexadecimal, this) ==
    LET valid == IF hexadecimal THEN Digits \cup HexLetters
                 ELSE IF numeric THEN Digits
                 ELSE Digits \cup Letters
        test == int(this, IF hexadecimal THEN 16 ELSE 10, 0)
        terminated(s4) ==
            IF _read(s4, 0) # <<";">> THEN entity_fail(s4)
            ELSE IF numeric /\ (test < 1 \/ test > 1114111)
            THEN entity_fail(s4)
            ELSE IF ~numeric /\ this \notin entitydefs THEN entity_fail(s4)
            ELSE [ok |-> TRUE,
                  s |-> _write(_write(s4, Text(this)), Tok("HTMLEntityEnd"))]
    IN IF \E i \in 1..Len(this) : this[i] \notin valid THEN entity_fail(s)
       ELSE terminated(Advance(s))

\* Lines 372-380: the segment `this` after the "#".
entity_numeric(s, this) ==
    IF this = END THEN entity_fail(s)
    ELSE IF lower_char(this[1]) = "x"
    THEN IF Tail(this) = <<>>
         THEN entity_fail(_write(s, HTMLEntityHex(this[1])))
         ELSE entity_text(_write(s, HTMLEntityHex(this[1])), TRUE, TRUE,
                          Tail(this))
    ELSE entity_text(s, TRUE, FALSE, this)

_really_parse_entity(s) ==
    LET numeric(s2) == entity_numeric(s2, _read(s2, 0))
        begun(s1, this) ==
            IF this = END THEN entity_fail(s1)
            ELSE IF this = <<"#">>
            THEN numeric(Advance(_write(s1, Tok("HTMLEntityNumeric"))))
            ELSE entity_text(s1, FALSE, FALSE, this)
        started(s1) == begun(s1, _read(s1, 0))
    IN started(Advance(_write(s, Tok("HTMLEntityStart"))))

\* _parse_entity after the frame is pushed: the try statement.
parse_entity_body(s, a) ==
    LET caught(s1) == Finish(_write_text(s1, _read(s1, 0)))
        tried(r) ==
            IF r.ok THEN Finish(write_all_popped(_pop(r.s, FALSE)))
            ELSE caught([_pop(r.s, FALSE).s EXCEPT !.head = a.reset])
    IN tried(_really_parse_entity(s))

(***************************************************************************)
(* HTML tags                                                               *)
(***************************************************************************)
\* tag_defs.is_parsable, imported at line 30 and called nowhere in the
\* tokenizer: whether the body of a tag of this name admits nested markup.
is_parsable(tag) ==
    lower(tag) \notin {<<"n", "o", "w", "i", "k", "i">>, <<"p", "r", "e">>}

\* The _TagOpenData of the running _really_parse_tag.
Data(s) == TopAct(s).data
SetData(s, d) == [s EXCEPT !.cs[Len(s.cs)].data = d]

\* _really_parse_tag up to its loop.
_really_parse_tag(s) ==
    PushAct(_write(_push(s, TAG_OPEN), TagOpenOpen(TRUE)),
            [fn |-> "_really_parse_tag", data |-> TagOpenData,
             chunks |-> <<>>, body |-> FALSE])

_parse_tag(s) ==
    _really_parse_tag(PushAct([s EXCEPT !.head = @ + 1],
                              [fn |-> "_parse_tag", reset |-> s.head]))

\* _parse_tag without `self._head = reset` at line 438.
parse_tag_fail_in_place(s, a) == Finish(_write_text(s, <<"<">>))

parse_tag_fail(s, a) ==
    Finish(_write_text([s EXCEPT !.head = a.reset], <<"<">>))

parse_tag_return(s, a, v) ==
    IF v.level # 0 THEN TypeError(s) ELSE Finish(_write_all(s, v.stack))

\* _really_parse_tag returns v to _parse_tag.
really_parse_tag_return(s, v) ==
    LET s1 == PopAct(s)
    IN IF s1.cs = <<>> \/ TopAct(s1).fn # "_parse_tag" THEN TypeError(s1)
       ELSE parse_tag_return(PopAct(s1), TopAct(s1), v)

_push_tag_buffer(s) ==
    LET data == Data(s)
        start(buf) ==
            TagAttrStart(buf[Len(buf) - 2], buf[Len(buf) - 1], buf[Len(buf)])
        quoted ==
            IF And(data.context, CX_QUOTED)
            THEN write_all_popped(_pop(_write_first(s, Tok("TagAttrQuote")),
                                       FALSE))
            ELSE s
    IN SetData(write_all_popped(
                   _pop(_write_first(quoted,
                                     start(data.padding_buffer
                                           \o Repeat(<<>>,
                                                3 - Len(data.padding_buffer)))),
                        FALSE)),
               [data EXCEPT !.padding_buffer = <<>>, !.ignore_quote = FALSE])

\* data.padding_buffer.append(chunk); data.context = context
pad(s, chunk, context) ==
    SetData(s, [Data(s) EXCEPT !.padding_buffer = Append(@, chunk),
                               !.context = context])

\* _parse_tag_chunk without the test of _can_recurse at line 561.
parse_tag_chunk_uncapped(s, chunk) ==
    LET next == _read(s, 1)
    IN IF chunk = <<"{">> /\ next = <<"{">> THEN _parse_template_or_argument(s)
       ELSE IF chunk = <<"[">> /\ next = <<"[">> THEN _parse_wikilink(s)
       ELSE IF chunk = <<"<">> THEN _parse_tag(s)
       ELSE Finish(_write_text(s, chunk))

_parse_tag_chunk(s, chunk) ==
    LET next == _read(s, 1)
    IN IF ~_can_recurse(s) \/ chunk \notin MARKERS
       THEN Finish(_write_text(s, chunk))
       ELSE IF chunk = <<"{">> /\ next = <<"{">>
       THEN _parse_template_or_argument(s)
       ELSE IF chunk = <<"[">> /\ next = <<"[">>
       THEN _parse_wikilink(s)
       ELSE IF chunk = <<"<">>
       THEN _parse_tag(s)
       ELSE Finish(_write_text(s, chunk))

\* The body of _handle_tag_chunk up to the call that ends it: [end, s] with
\* end "fail" for _fail_route, "chunk" for _parse_tag_chunk and "" for none.
tag_chunk(s, chunk) ==
    LET data == Data(s)
        dc == data.context
        End(end, s1) == [end |-> end, s |-> s1]
    IN IF And(dc, CX_NAME)
       THEN IF chunk \in MARKERS \/ isspace(chunk) THEN End("fail", s)
            ELSE End("", SetData(_write_text(s, chunk),
                                 [data EXCEPT !.context = CX_NEED_SPACE]))
       ELSE IF And(dc, CX_NEED_SPACE)
       THEN IF isspace(chunk)
            THEN End("", pad(IF And(dc, CX_ATTR_VALUE) THEN _push_tag_buffer(s)
                             ELSE s,
                             chunk, CX_ATTR_READY))
            ELSE IF And(dc, CX_QUOTED)
            THEN End("", [SetData(_pop(s, FALSE).s,
                                  [data EXCEPT
                                       !.context =
                                           Xor(@, CX_NEED_SPACE \cup CX_QUOTED),
                                       !.ignore_quote = TRUE])
                            EXCEPT !.head = data.reset])
            ELSE End("fail", s)
       ELSE IF And(dc, CX_ATTR_READY)
       THEN IF isspace(chunk) THEN End("", pad(s, chunk, dc))
            ELSE End("chunk",
                     _push(SetData(s, [data EXCEPT !.context = CX_ATTR_NAME]),
                           TAG_ATTR))
       ELSE IF And(dc, CX_ATTR_NAME)
       THEN IF isspace(chunk)
            THEN End("", pad(s, chunk, Or(dc, CX_NEED_EQUALS)))
            ELSE IF chunk = <<"=">>
            THEN End("", _write(IF ~And(dc, CX_NEED_EQUALS)
                                THEN pad(s, <<>>,
                                         CX_ATTR_VALUE \cup CX_NEED_QUOTE)
                                ELSE SetData(s, [data EXCEPT !.context =
                                             CX_ATTR_VALUE \cup CX_NEED_QUOTE]),
                                Tok("TagAttrEquals")))
            ELSE IF And(dc, CX_NEED_EQUALS)
            THEN End("chunk",
                     _push(pad(_push_tag_buffer(s), <<>>, CX_ATTR_NAME),
                           TAG_ATTR))
            ELSE End("chunk", s)
       ELSE IF And(dc, CX_ATTR_VALUE)
       THEN IF And(dc, CX_NEED_QUOTE)
            THEN IF chunk = <<"\"">> /\ ~data.ignore_quote
                 THEN End("", SetData(push_same(s),
                                      [data EXCEPT
                                           !.context = Or(Xor(@, CX_NEED_QUOTE),
                                                          CX_QUOTED),
                                           !.reset = s.head]))
                 ELSE IF isspace(chunk) THEN End("", pad(s, chunk, dc))
                 ELSE End("chunk",
                          SetData(s, [data EXCEPT
                                          !.context = Xor(@, CX_NEED_QUOTE)]))
            ELSE IF And(dc, CX_QUOTED)
            THEN IF chunk = <<"\"">>
                 THEN End("", SetData(s, [data EXCEPT
                                              !.context = Or(@, CX_NEED_SPACE)]))
                 ELSE End("chunk", s)
            ELSE IF isspace(chunk)
            THEN End("", pad(_push_tag_buffer(s), chunk, CX_ATTR_READY))
            ELSE End("chunk", s)
       ELSE End("", s)

\* One call of _handle_tag_chunk from the chunk loops (lines 453-455 and
\* 478-480), whose `continue` does nothing; the chunk has been taken off
\* the chunks of the activation, and Finish goes on with the next chunk or,
\* after the last, with `self._head += 1`.
_handle_tag_chunk(s, chunk) ==
    LET ended(r) ==
            IF r.end = "fail" THEN _fail_route(r.s)
            ELSE IF r.end = "chunk" THEN _parse_tag_chunk(r.s, chunk)
            ELSE Finish(r.s)
    IN ended(tag_chunk(s, chunk))

\* can_exit of _really_parse_tag, lines 450-451
can_exit(data) ==
    ~And(data.context, CX_QUOTED \cup CX_NAME) \/ And(data.context, CX_NEED_SPACE)

\* `this is self.END` in _really_parse_tag: lines 456-461
really_parse_tag_end(s) ==
    _fail_route(IF ~And(_context(s), TAG_ATTR) THEN s
                ELSE IF And(Data(s).context, CX_QUOTED)
                THEN _pop(_pop(s, FALSE).s, FALSE).s
                ELSE _pop(s, FALSE).s)

\* `if data.context & data.CX_ATTR: self._push_tag_buffer(data)`
push_last_attr(s) ==
    IF And(Data(s).context, CX_ATTR) THEN _push_tag_buffer(s) ELSE s

\* `data.padding_buffer[0] if data.padding_buffer else ""`
padding(s) ==
    IF Data(s).padding_buffer # <<>> THEN Data(s).padding_buffer[1] ELSE <<>>

\* `this == ">" and can_exit`: lines 462-469; the tag's body is scanned by
\* _parse(push=False), whose result _really_parse_tag returns.
really_parse_tag_close_open(s) ==
    LET body(s2) ==
            PushAct([s2 EXCEPT !.head = @ + 1, !.cs[Len(s.cs)].body = TRUE],
                    [fn |-> "_parse"])
        close(s1) ==
            body(set_context(_write(s1, TagCloseOpen(padding(s1))), TAG_BODY))
    IN close(push_last_attr(s))

\* `this == "/" and next == ">" and can_exit`: lines 470-476
really_parse_tag_selfclose(s) ==
    LET return(p) == really_parse_tag_return(p.s, List(p.stack))
        close(s1) ==
            return(_pop(Advance(_write(s1, TagCloseSelfclose(padding(s1)))),
                        FALSE))
    IN close(push_last_attr(s))

_handle_tag_open_close(s) ==
    Advance(_push(_write(s, Tok("TagOpenClose")), TAG_CLOSE))

\* strip = lambda tok: tok.text.rstrip().lower()
\* The strip lambda without `.lower()` at line 598.
strip_cased(tok) == rstrip(tok.text)

strip(tok) == lower(rstrip(tok.text))

_handle_tag_close_close(s) ==
    LET matched(closing, opening) ==
            IF Len(closing) # 1 \/ closing[1].type # "Text" THEN "fail"
            ELSE IF Len(opening) < 2 \/ opening[2].type # "Text" THEN "error"
            ELSE IF strip(closing[1]) # strip(opening[2]) THEN "fail"
            ELSE "return"
        closed(p, match) ==
            IF match = "fail" THEN _fail_route(p.s)
            ELSE IF match = "error" THEN IndexError(p.s)
            ELSE pop_return(_write(_write_all(p.s, p.stack),
                                   Tok("TagCloseClose")))
        popped(p) == closed(p, matched(p.stack, _stack(p.s)))
    IN popped(_pop(s, FALSE))

(***************************************************************************)
(* Returning and raising across the call stack                             *)
(***************************************************************************)
\* The _parse on top of cs returns v to its caller.
Return(s, v) ==
    LET s1 == PopAct(s)
        a == TopAct(s1)
        s2 == PopAct(s1)
    IN IF s.cs = <<>> THEN TypeError(s)
       ELSE IF s1.cs = <<>> THEN tokenize_return(s1, v)
       ELSE CASE a.fn = "_parse_template" -> parse_template_return(s2, a, v)
              [] a.fn = "_parse_argument" -> parse_argument_return(s2, a, v)
              [] a.fn = "_parse_wikilink" -> parse_wikilink_return(s2, a, v)
              [] a.fn = "_parse_heading" -> parse_heading_return(s2, a, v)
              [] a.fn = "_handle_heading_end" ->
                    handle_heading_end_return(s2, a, v)
              [] a.fn = "_parse_comment" -> parse_comment_return(s2, a, v)
              [] a.fn = "_really_parse_tag" -> really_parse_tag_return(s1, v)
              [] OTHER -> TypeError(s1)

\* BadRoute is raised in the activation on top of cs and travels down to the
\* nearest `except BadRoute`; _parse and _really_parse_tag have none.
Raise(s) ==
    LET s1 == PopAct(s)
        a == TopAct(s1)
        s2 == PopAct(s1)
    IN IF s.cs = <<>> \/ s1.cs = <<>>
       THEN [s EXCEPT !.cs = <<>>, !.pc = IF @ = "run" THEN "badroute" ELSE @]
       ELSE CASE a.fn = "_parse_template" -> parse_template_fail(s2, a)
              [] a.fn = "_parse_argument" -> parse_argument_fail(s2, a)
              [] a.fn = "_parse_wikilink" -> parse_wikilink_fail(s2, a)
              [] a.fn = "_parse_heading" -> parse_heading_fail(s2, a)
              [] a.fn = "_handle_heading_end" -> handle_heading_end_fail(s2, a)
              [] a.fn = "_parse_comment" -> parse_comment_fail(s2, a)
              [] a.fn = "_parse_tag" -> parse_tag_fail(s2, a)
              [] OTHER -> Raise(s1)

(***************************************************************************)
(* _verify_safe: [ok, s]                                                   *)
(***************************************************************************)
\* _verify_safe without line 629: a newline after the text of a template's
\* name does not set FAIL_ON_TEXT.
verify_safe_after_newline(s, this) ==
    LET context == _context(s)
        Yes(x) == [ok |-> TRUE, s |-> x]
        No == [ok |-> FALSE, s |-> s]
        arm(flag) == set_context(s, Or(context, flag))
    IN IF And(context, FAIL_NEXT) THEN No
       ELSE IF And(context, WIKILINK_TITLE)
       THEN IF this = <<"]">> \/ this = <<"{">> THEN Yes(arm(FAIL_NEXT))
            ELSE IF this = <<"\n">> \/ this = <<"[">> \/ this = <<"}">> THEN No
            ELSE Yes(s)
       ELSE IF And(context, TEMPLATE_NAME)
       THEN IF this = <<"{">> \/ this = <<"}">> \/ this = <<"[">>
            THEN Yes(arm(FAIL_NEXT))
            ELSE IF this = <<"]">> THEN No
            ELSE IF this = <<"|">> THEN Yes(s)
            ELSE IF And(context, HAS_TEXT)
            THEN IF And(context, FAIL_ON_TEXT)
                 THEN IF this = END \/ ~isspace(this) THEN No ELSE Yes(s)
                 ELSE IF this = <<"\n">> THEN Yes(s)
                 ELSE Yes(s)
            ELSE IF this = END \/ ~isspace(this) THEN Yes(arm(HAS_TEXT))
            ELSE Yes(s)
       ELSE IF And(context, TAG_CLOSE)
       THEN IF this # <<"<">> THEN Yes(s) ELSE No
       ELSE IF And(context, FAIL_ON_EQUALS)
       THEN IF this = <<"=">> THEN No ELSE Yes(s)
       ELSE IF And(context, FAIL_ON_LBRACE)
       THEN IF this = <<"{">>
               \/ (_read(s, -1) = <<"{">> /\ _read(s, -2) = <<"{">>)
            THEN IF And(context, TEMPLATE) THEN Yes(arm(FAIL_ON_EQUALS))
                 ELSE Yes(arm(FAIL_NEXT))
            ELSE Yes(set_context(s, Xor(context, FAIL_ON_LBRACE)))
       ELSE IF And(context, FAIL_ON_RBRACE)
       THEN IF this = <<"}">>
            THEN IF And(context, TEMPLATE) THEN Yes(arm(FAIL_ON_EQUALS))
                 ELSE Yes(arm(FAIL_NEXT))
            ELSE Yes(set_context(s, Xor(context, FAIL_ON_RBRACE)))
       ELSE IF this = <<"{">> THEN Yes(arm(FAIL_ON_LBRACE))
       ELSE IF this = <<"}">> THEN Yes(arm(FAIL_ON_RBRACE))
       ELSE Yes(s)

_verify_safe(s, this) ==
    LET context == _context(s)
        Yes(x) == [ok |-> TRUE, s |-> x]
        No == [ok |-> FALSE, s |-> s]
        arm(flag) == set_context(s, Or(context, flag))
    IN IF And(context, FAIL_NEXT) THEN No
       ELSE IF And(context, WIKILINK_TITLE)
       THEN IF this = <<"]">> \/ this = <<"{">> THEN Yes(arm(FAIL_NEXT))
            ELSE IF this = <<"\n">> \/ this = <<"[">> \/ this = <<"}">> THEN No
            ELSE Yes(s)
       ELSE IF And(context, TEMPLATE_NAME)
       THEN IF this = <<"{">> \/ this = <<"}">> \/ this = <<"[">>
            THEN Yes(arm(FAIL_NEXT))
            ELSE IF this = <<"]">> THEN No
            ELSE IF this = <<"|">> THEN Yes(s)
            ELSE IF And(context, HAS_TEXT)
            THEN IF And(context, FAIL_ON_TEXT)
                 THEN IF this = END \/ ~isspace(this) THEN No ELSE Yes(s)
                 ELSE IF this = <<"\n">> THEN Yes(arm(FAIL_ON_TEXT))
                 ELSE Yes(s)
            ELSE IF this = END \/ ~isspace(this) THEN Yes(arm(HAS_TEXT))
            ELSE Yes(s)
       ELSE IF And(context, TAG_CLOSE)
       THEN IF this # <<"<">> THEN Yes(s) ELSE No
       ELSE IF And(context, FAIL_ON_EQUALS)
       THEN IF this = <<"=">> THEN No ELSE Yes(s)
       ELSE IF And(context, FAIL_ON_LBRACE)
       THEN IF this = <<"{">>
               \/ (_read(s, -1) = <<"{">> /\ _read(s, -2) = <<"{">>)
            THEN IF And(context, TEMPLATE) THEN Yes(arm(FAIL_ON_EQUALS))
                 ELSE Yes(arm(FAIL_NEXT))
            ELSE Yes(set_context(s, Xor(context, FAIL_ON_LBRACE)))
       ELSE IF And(context, FAIL_ON_RBRACE)
       THEN IF this = <<"}">>
            THEN IF And(context, TEMPLATE) THEN Yes(arm(FAIL_ON_EQUALS))
                 ELSE Yes(arm(FAIL_NEXT))
            ELSE Yes(set_context(s, Xor(context, FAIL_ON_RBRACE)))
       ELSE IF this = <<"{">> THEN Yes(arm(FAIL_ON_LBRACE))
       ELSE IF this = <<"}">> THEN Yes(arm(FAIL_ON_RBRACE))
       ELSE Yes(s)

(***************************************************************************)
(* _parse: one iteration of `while True`                                   *)
(***************************************************************************)
unsafe ==
    TEMPLATE_NAME \cup WIKILINK_TITLE \cup TEMPLATE_PARAM_KEY
    \cup ARGUMENT_NAME \cup TAG_CLOSE
fail == TEMPLATE \cup ARGUMENT \cup WIKILINK \cup HEADING \cup COMMENT \cup TAG
\* double_fail without TEMPLATE_PARAM_KEY: a route that fails inside the key
\* of a template parameter pops one frame of the two the parameter holds.
double_fail_close == TAG_CLOSE
double_fail == TEMPLATE_PARAM_KEY \cup TAG_CLOSE

\* Lines 676-678: read, and verify in an unsafe context.
Checked(s) ==
    IF And(_context(s), unsafe) THEN _verify_safe(s, _read(s, 0))
    ELSE [ok |-> TRUE, s |-> s]

\* Lines 679-681 and 687-690: fail the route, popping twice in a
\* double_fail context.
parse_fail(s) ==
    _fail_route(IF And(_context(s), double_fail) THEN _pop(s, FALSE).s ELSE s)

\* The branch of the if/elif chain of lines 682-751 taken at the head.
Branch(s) ==
    LET this == _read(s, 0)
        next == _read(s, 1)
        context == _context(s)
    IN IF this \notin MARKERS THEN "text"
       ELSE IF this = END THEN "end"
       ELSE IF And(context, COMMENT)
       THEN IF this = <<"-">> /\ next = <<"-">> /\ _read(s, 2) = <<">">>
            THEN "comment_end" ELSE "literal"
       ELSE IF this = <<"{">> /\ next = <<"{">>
       THEN IF _can_recurse(s) THEN "template_or_argument" ELSE "literal"
       ELSE IF this = <<"|">> /\ And(context, TEMPLATE) THEN "template_param"
       ELSE IF this = <<"=">> /\ And(context, TEMPLATE_PARAM_KEY)
       THEN "template_param_value"
       ELSE IF this = <<"}">> /\ next = <<"}">> /\ And(context, TEMPLATE)
       THEN "template_end"
       ELSE IF this = <<"|">> /\ And(context, ARGUMENT_NAME)
       THEN "argument_separator"
       ELSE IF this = <<"}">> /\ next = <<"}">> /\ And(context, ARGUMENT)
       THEN IF _read(s, 2) = <<"}">> THEN "argument_end" ELSE "literal"
       ELSE IF this = <<"[">> /\ next = <<"[">>
       THEN IF ~And(context, WIKILINK_TITLE) /\ _can_recurse(s)
            THEN "wikilink" ELSE "literal"
       ELSE IF this = <<"|">> /\ And(context, WIKILINK_TITLE)
       THEN "wikilink_separator"
       ELSE IF this = <<"]">> /\ next = <<"]">> /\ And(context, WIKILINK)
       THEN "wikilink_end"
       ELSE IF this = <<"=">> /\ ~And(s.global, GL_HEADING)
       THEN IF _read(s, -1) \in {<<"\n">>, START} THEN "heading" ELSE "literal"
       ELSE IF this = <<"=">> /\ And(context, HEADING) THEN "heading_end"
       ELSE IF this = <<"\n">> /\ And(context, HEADING) THEN "heading_newline"
       ELSE IF this = <<"&">> THEN "entity"
       ELSE IF this = <<"<">> /\ next = <<"!">>
       THEN IF _read(s, 2) = <<"-">> /\ _read(s, 3) = <<"-">>
            THEN "comment" ELSE "literal"
       ELSE IF this = <<"<">> /\ next = <<"/">> /\ And(context, TAG_BODY)
       THEN "tag_open_close"
       ELSE IF this = <<"<">>
       THEN IF ~And(context, TAG_CLOSE) /\ _can_recurse(s)
            THEN "tag" ELSE "literal"
       ELSE IF this = <<">">> /\ And(context, TAG_CLOSE) THEN "tag_close_close"
       ELSE "literal"

\* _parse is the running loop.
InParse == pc = "run" /\ cs # <<>> /\ TopAct(Cur).fn = "_parse"

\* Line 676: `this`, read before the rest of the iteration, is one of chars.
Reads(chars) == InParse /\ _read(Cur, 0) \in chars

\* The iteration whose verification gave c goes on to `branch`.
Takes(c, branch) == c.ok /\ Branch(c.s) = branch

Step(t) == Upd(t) /\ UNCHANGED <<input, first>>

(***************************************************************************)
(* Actions of _parse: c is the outcome of lines 676-678, c.s the state the *)
(* rest of the iteration starts in.                                        *)
(***************************************************************************)
\* Lines 677-681: the segment is not safe in this context.
ParseUnsafe ==
    InParse /\ And(_context(Cur), unsafe) /\ \E c \in {Checked(Cur)} : ~c.ok /\ Step(parse_fail(c.s))

\* Lines 682-685
ParseText ==
    InParse /\ _read(Cur, 0) \notin MARKERS /\ \E c \in {Checked(Cur)} :
        Takes(c, "text") /\ Step(Advance(_write_text(c.s, _read(c.s, 0))))

\* Lines 686-690: the end of the text inside a construct.
ParseEndFail ==
    Reads({END}) /\ \E c \in {Checked(Cur)} :
        Takes(c, "end") /\ And(_context(c.s), fail) /\ Step(parse_fail(c.s))

\* Line 691: the end of the text outside any construct.
ParseEndReturn ==
    Reads({END}) /\ \E c \in {Checked(Cur)} :
        Takes(c, "end") /\ ~And(_context(c.s), fail) /\ Step(pop_return(c.s))

\* Lines 694-695
ParseCommentEnd ==
    Reads({<<"-">>}) /\ \E c \in {Checked(Cur)} :
        Takes(c, "comment_end") /\ Step(pop_return(c.s))

\* Every `self._write_text(this)` branch of the chain.
ParseLiteral ==
    Reads(MARKERS \ {END}) /\ \E c \in {Checked(Cur)} :
        Takes(c, "literal") /\ Step(Advance(_write_text(c.s, _read(c.s, 0))))

ParseTemplateOrArgument ==
    Reads({<<"{">>}) /\ \E c \in {Checked(Cur)} :
        Takes(c, "template_or_argument")
        /\ Step(_parse_template_or_argument(c.s))

HandleTemplateParam ==
    Reads({<<"|">>}) /\ \E c \in {Checked(Cur)} :
        Takes(c, "template_param")
        /\ Step(Advance(_handle_template_param(c.s)))

HandleTemplateParamValue ==
    Reads({<<"=">>}) /\ \E c \in {Checked(Cur)} :
        Takes(c, "template_param_value")
        /\ Step(Advance(_handle_template_param_value(c.s)))

HandleTemplateEnd ==
    Reads({<<"}">>}) /\ \E c \in {Checked(Cur)} :
        Takes(c, "template_end")
        /\ Step(return_popped(_handle_template_end(c.s), 0))

HandleArgumentSeparator ==
    Reads({<<"|">>}) /\ \E c \in {Checked(Cur)} :
        Takes(c, "argument_separator")
        /\ Step(Advance(_handle_argument_separator(c.s)))

HandleArgumentEnd ==
    Reads({<<"}">>}) /\ \E c \in {Checked(Cur)} :
        Takes(c, "argument_end")
        /\ Step(return_popped(_handle_argument_end(c.s), 0))

ParseWikilink ==
    Reads({<<"[">>}) /\ \E c \in {Checked(Cur)} :
        Takes(c, "wikilink") /\ Step(_parse_wikilink(c.s))

HandleWikilinkSeparator ==
    Reads({<<"|">>}) /\ \E c \in {Checked(Cur)} :
        Takes(c, "wikilink_separator")
        /\ Step(Advance(_handle_wikilink_separator(c.s)))

HandleWikilinkEnd ==
    Reads({<<"]">>}) /\ \E c \in {Checked(Cur)} :
        Takes(c, "wikilink_end")
        /\ Step(return_popped(_handle_wikilink_end(c.s), 0))

ParseHeading ==
    Reads({<<"=">>}) /\ \E c \in {Checked(Cur)} :
        Takes(c, "heading") /\ Step(_parse_heading(c.s))

HandleHeadingEnd ==
    Reads({<<"=">>}) /\ \E c \in {Checked(Cur)} :
        Takes(c, "heading_end") /\ Step(_handle_heading_end(c.s))

\* Lines 732-733: a newline inside a heading.
ParseHeadingNewline ==
    Reads({<<"\n">>}) /\ \E c \in {Checked(Cur)} :
        Takes(c, "heading_newline") /\ Step(_fail_route(c.s))

\* _parse_entity, lines 406-407: the frame of the entity is pushed.
ParseEntity ==
    Reads({<<"&">>}) /\ \E c \in {Checked(Cur)} :
        Takes(c, "entity")
        /\ Step(PushAct(_push(c.s, {}),
                        [fn |-> "_parse_entity", reset |-> c.s.head]))

\* _parse_entity, lines 408-414, and `self._head += 1`.
ReallyParseEntity ==
    /\ pc = "run" /\ cs # <<>> /\ TopAct(Cur).fn = "_parse_entity"
    /\ Step(parse_entity_body(PopAct(Cur), TopAct(Cur)))

ParseComment ==
    Reads({<<"<">>}) /\ \E c \in {Checked(Cur)} :
        Takes(c, "comment") /\ Step(_parse_comment(c.s))

HandleTagOpenClose ==
    Reads({<<"<">>}) /\ \E c \in {Checked(Cur)} :
        Takes(c, "tag_open_close") /\ Step(Advance(_handle_tag_open_close(c.s)))

ParseTag ==
    Reads({<<"<">>}) /\ \E c \in {Checked(Cur)} :
        Takes(c, "tag") /\ Step(_parse_tag(c.s))

HandleTagCloseClose ==
    Reads({<<">">>}) /\ \E c \in {Checked(Cur)} :
        Takes(c, "tag_close_close") /\ Step(_handle_tag_close_close(c.s))

(***************************************************************************)
(* Actions of _really_parse_tag                                            *)
(***************************************************************************)
InTag == pc = "run" /\ cs # <<>> /\ TopAct(Cur).fn = "_really_parse_tag"

\* The branch of lines 452-480 taken at the head.
TagBranch(s) ==
    LET this == _read(s, 0)
        next == _read(s, 1)
    IN IF this \notin MARKERS THEN "chunks"
       ELSE IF this = END THEN "end"
       ELSE IF this = <<">">> /\ can_exit(Data(s)) THEN "close_open"
       ELSE IF this = <<"/">> /\ next = <<">">> /\ can_exit(Data(s))
       THEN "selfclose"
       ELSE "chunks"

AtSegment(branch) ==
    InTag /\ TopAct(Cur).chunks = <<>> /\ TagBranch(Cur) = branch

\* One turn of `for chunk in self.tag_splitter.split(this)`: the first turn
\* splits the segment at the head.
HandleTagChunk ==
    /\ InTag
    /\ IF TopAct(Cur).chunks # <<>> THEN TRUE ELSE TagBranch(Cur) = "chunks"
    /\ \E chunks \in {IF TopAct(Cur).chunks # <<>> THEN TopAct(Cur).chunks
                        ELSE tag_splitter_split(_read(Cur, 0))} :
           Step(_handle_tag_chunk([Cur EXCEPT !.cs[Len(cs)].chunks = Tail(chunks)],
                                  Head(chunks)))

ReallyParseTagEnd == AtSegment("end") /\ Step(really_parse_tag_end(Cur))

ReallyParseTagCloseOpen ==
    AtSegment("close_open") /\ Step(really_parse_tag_close_open(Cur))

ReallyParseTagSelfclose ==
    AtSegment("selfclose") /\ Step(really_parse_tag_selfclose(Cur))

(***************************************************************************)
(* tokenize                                                                *)
(***************************************************************************)
\* Lines 756-758 up to the loop of _parse.
tokenize(s, string) ==
    call_parse([s EXCEPT !.text = regex_split(string), !.pc = "run"], {})

Tokenize == pc = "init" /\ Step(tokenize(Cur, input))

\* A further call of tokenize on the same Tokenizer, with the same string.
TokenizeAgain ==
    /\ pc = "done" /\ first = <<>>
    /\ Upd(tokenize(Cur, input))
    /\ first' = <<out>>
    /\ UNCHANGED input

\* A Tokenizer just made: Tokenizer.__init__.
Fresh ==
    [text |-> <<>>, head |-> 0, stacks |-> <<>>, global |-> {}, depth |-> 0,
     cycles |-> 0, cs |-> <<>>, pc |-> "init", out |-> <<>>]

\* The tokens of a list are Text tokens, all of them.
TextOnly(tokens) == \A i \in 1..Len(tokens) : tokens[i].type = "Text"

\* The texts of the tokens of a list of Text tokens, put together.
TextOf(tokens) == Join([i \in 1..Len(tokens) |-> tokens[i].text])

\* tokenize is called, on a Tokenizer just made, with the texts of a returned
\* list that holds Text tokens only.
TokenizeText ==
    /\ pc = "done" /\ first = <<>> /\ TextOnly(out)
    /\ input' = TextOf(out)
    /\ Upd(tokenize(Fresh, TextOf(out)))
    /\ first' = <<out>>

(***************************************************************************)
(* Inputs                                                                  *)
(***************************************************************************)
\* The number of pieces an input is put together from.
MaxPieces == 3

\* The strings put together from at most n of the pieces.
RECURSIVE Words(_, _)
Words(pieces, n) ==
    IF n = 0 THEN {<<>>}
    ELSE LET w == Words(pieces, n - 1)
         IN w \cup {x \o p : x \in w, p \in pieces}

TemplatePieces ==
    {<<"{", "{">>, <<"}", "}">>, <<"{", "{", "{">>, <<"}", "}", "}">>,
     <<"|">>, <<"=">>, <<"a">>, <<"\n">>}

LinkPieces ==
    {<<"[", "[">>, <<"]", "]">>, <<"|">>, <<"=">>, <<"=", "=">>, <<"\n">>,
     <<"a">>, <<"{", "{">>}

EntityPieces ==
    {<<"&">>, <<"&", "#">>, <<"&", "#", "x">>, <<"4", "1", ";">>,
     <<"a", "m", "p", ";">>, <<"0", ";">>, <<"<", "!", "-", "-">>,
     <<"-", "-", ">">>}

TagPieces ==
    {<<"<", "a">>, <<" ">>, <<" ", " ">>, <<">">>, <<"/", ">">>,
     <<"<", "/", "a", ">">>, <<"<", "/">>, <<" ", "b", "=">>,
     <<"\"", "c", "\"">>, <<"\"", "c">>}

\* The characters of a string.
Chars(str) == [i \in 1..Len(str) |-> SubSeq(str, i, i)]

\* n copies of str, one after the other.
RECURSIVE Rep(_, _)
Rep(str, n) == IF n = 0 THEN <<>> ELSE str \o Rep(str, n - 1)

\* The number of templates nested in one another, all closed.
MaxNest == 20
Nested(n) == Rep(Chars("{{a"), n) \o Rep(Chars("}}"), n)

\* The number of "=" inside a heading that opens with one "=".
MaxEquals == 8
Headings(n) == Chars("=") \o Rep(Chars("a="), n)

\* The number of templates opened one in another's first parameter and never
\* closed: each is tried again after each failure of the ones behind it.
MaxUnclosed == 15
Unclosed(n) == Rep(Chars("{{|"), n)

\* The texts of test_readme_1, test_readme_2 and test_readme_3.
Readme ==
    {Chars("I has a template! {{foo|bar|baz|eggs=spam}} See it?"),
     Chars("{{foo|this {{includes a|template}}}}"),
     Chars("{{foo|{{bar}}={{baz|{{spam}}}}}}")}

\* Templates nested in one another's parameter value, two frames each, around
\* a piece of markup: with CapNest of them the markup is read with more than
\* MAX_DEPTH frames on the stack, with one less a tag can still be opened
\* and what is inside its opening is read with MAX_DEPTH frames or more.
CapNest == MAX_DEPTH \div 2
Capped(n, str) == Rep(Chars("{{a|b="), n) \o str \o Rep(Chars("}}"), n)
AtCap ==
    {Capped(CapNest, Chars(x)) : x \in {"{{c}}", "[[c]]", "<c/>"}}
    \cup {Capped(CapNest - 1, Chars(x)) :
             x \in {"<c d={{e}}/>", "<c d=[[e]]/>", "<c d=<e/>/>"}}

\* The sequences of at most n elements of a set.
UpTo(S, n) == UNION {[1..k -> S] : k \in 0..n}

\* The number of parameters of a well-formed template.
MaxParams == 3

\* Well-formed templates whose name, keys and values are plain text, with the
\* text before and after them: a parameter is a key, or a key, "=" and a
\* value, and a value may hold a further "=".
PlainParams ==
    {[key |-> Chars("b"), eq |-> FALSE, value |-> <<>>],
     [key |-> Chars("b"), eq |-> TRUE, value |-> Chars("c")],
     [key |-> Chars("k"), eq |-> TRUE, value |-> Chars("c=d")]}

WellFormed ==
    {[before |-> b, name |-> n, params |-> ps, after |-> a] :
        b \in {<<>>, Chars("x ")}, n \in {Chars("a"), Chars("a b")},
        ps \in UpTo(PlainParams, MaxParams), a \in {<<>>, Chars(" y")}}
    \cup {[before |-> Chars("I has a template! "), name |-> Chars("foo"),
           params |-> <<[key |-> Chars("bar"), eq |-> FALSE, value |-> <<>>],
                        [key |-> Chars("baz"), eq |-> FALSE, value |-> <<>>],
                        [key |-> Chars("eggs"), eq |-> TRUE,
                         value |-> Chars("spam")]>>,
           after |-> Chars(" See it?")]}

\* The text of a well-formed template.
Source(t) ==
    t.before \o Chars("{{") \o t.name
    \o Join([i \in 1..Len(t.params) |->
                Chars("|") \o t.params[i].key
                \o (IF t.params[i].eq THEN Chars("=") \o t.params[i].value
                    ELSE <<>>)])
    \o Chars("}}") \o t.after

TemplateInputs == {Source(t) : t \in WellFormed}

\* The number of templates in one parameter key.
MaxInner == 2

\* Templates nested in a parameter of an outer template. A field (a key or a
\* value) is a sequence of pieces, each a plain text (empty or not) and a
\* well-formed template after it, and a plain text at its end.
Inner ==
    {[before |-> <<>>, name |-> Chars("b"), params |-> ps, after |-> <<>>] :
        ps \in {<<>>, <<[key |-> Chars("c"), eq |-> TRUE,
                         value |-> Chars("d")]>>}}
Piece == [text : {<<>>, Chars("x")}, inner : Inner]
PlainField == [pieces |-> <<>>, tail |-> Chars("k")]
NoField == [pieces |-> <<>>, tail |-> <<>>]
KeyFields ==
    {PlainField}
    \cup {[pieces |-> ps, tail |-> <<>>] : ps \in UpTo(Piece, MaxInner) \ {<<>>}}
ValueFields ==
    {PlainField}
    \cup {[pieces |-> <<p>>, tail |-> e] : p \in Piece, e \in {<<>>, Chars("y")}}
Outer ==
    {t \in [key : KeyFields, eq : BOOLEAN, value : ValueFields \cup {NoField}] :
        /\ t.eq <=> t.value # NoField
        /\ t.key # PlainField \/ t.value.pieces # <<>>}

FieldSource(f) ==
    Join([i \in 1..Len(f.pieces) |->
             f.pieces[i].text \o Source(f.pieces[i].inner)])
    \o f.tail

\* The text of an outer template named "a" with one parameter.
OuterSource(t) ==
    Chars("{{a|") \o FieldSource(t.key)
    \o (IF t.eq THEN Chars("=") \o FieldSource(t.value) ELSE <<>>)
    \o Chars("}}")

OuterInputs == {OuterSource(t) : t \in Outer}

\* The length of a run of "=" around a heading's title.
MaxRun == 7

\* Heading lines: at the start of the input or after a newline a run of m
\* "=", a title, a run of n "=", then the end of the input or of the line.
HeadingLines ==
    [before : {<<>>, Chars("x\n")}, m : 1..MaxRun,
     title : {Chars("Heading"), Chars("a=b")}, n : 1..MaxRun,
     after : {<<>>, Chars("\ntext")}]

HeadingSource(h) ==
    h.before \o Rep(Chars("="), h.m) \o h.title \o Rep(Chars("="), h.n)
    \o h.after

HeadingInputs == {HeadingSource(h) : h \in HeadingLines}

\* Broken wikilinks: after nothing, a good wikilink and text, or text, the
\* two characters "[[" and a title that reaches the end of the input before
\* "]]" or holds a newline, a "[" or a "}"; then a good wikilink or nothing.
BrokenTitles ==
    {<<>>, Chars("broken"), Chars("a\nb]]"), Chars("a[b]]"), Chars("a}b]]"),
     Chars("a|b")}
BrokenLinks ==
    [link : BOOLEAN, before : {<<>>, Chars(" and ")}, title : BrokenTitles,
     then : BOOLEAN]

BrokenSource(b) ==
    (IF b.link THEN Chars("[[foo|bar]]") ELSE <<>>)
    \o b.before \o Chars("[[") \o b.title
    \o (IF b.then THEN Chars("[[c]]") ELSE <<>>)

BrokenInputs == {BrokenSource(b) : b \in BrokenLinks}

\* Entity candidates: "&", then a name, or "#" and decimal digits, or "#",
\* "x" or "X" and hex digits, or something that is none of these, then ";"
\* or not; with and without text around them.
NameBodies == {<<>>, Chars("amp"), Chars("lt"), Chars("bogus"), Chars("a1")}
DecimalBodies ==
    {<<>>, Chars("65"), Chars("0041"), Chars("0"), Chars("1"), Chars("1114111"),
     Chars("1114112"), Chars("6a")}
HexBodies ==
    {<<>>, Chars("41"), Chars("1F600"), Chars("0"), Chars("10FFFF"),
     Chars("110000"), Chars("1f"), Chars("g")}
Candidates ==
    [kind : {"name"}, x : {<<>>}, body : NameBodies, semi : BOOLEAN,
     before : {<<>>, Chars("x ")}, after : {<<>>, Chars(" y")}]
    \cup [kind : {"decimal"}, x : {<<>>}, body : DecimalBodies, semi : BOOLEAN,
          before : {<<>>, Chars("x ")}, after : {<<>>, Chars(" y")}]
    \cup [kind : {"hex"}, x : {<<"x">>, <<"X">>}, body : HexBodies,
          semi : BOOLEAN,
          before : {<<>>, Chars("x ")}, after : {<<>>, Chars(" y")}]

\* The text of a candidate from its "&" on.
CandidateText(c) ==
    Chars("&") \o (IF c.kind = "name" THEN <<>> ELSE Chars("#")) \o c.x
    \o c.body \o (IF c.semi THEN Chars(";") ELSE <<>>)

CandidateSource(c) == c.before \o CandidateText(c) \o c.after

CandidateInputs == {CandidateSource(c) : c \in Candidates}

\* Tags with a body and a closing tag: the name of the closing tag is the
\* opening one's, or differs in case, in whitespace after or before it, or
\* is another name, or is not plain text.
ClosingNames ==
    {Chars("ref"), Chars("REF"), Chars("ref "), Chars("ref\n"), Chars(" ref"),
     Chars("re"), <<>>, Chars("ref{{t}}"), Chars("{{t}}")}
ClosedTags == [open : {Chars("ref"), Chars("Ref")}, close : ClosingNames]

ClosedSource(t) ==
    Chars("<") \o t.open \o Chars(">x</") \o t.close \o Chars(">")

ClosedInputs == {ClosedSource(t) : t \in ClosedTags}

\* Comments: "<!--", a body that holds text or markup but no "-->", then
\* "-->" and what follows it, or no "-->" at all; what follows is a text,
\* then a template or nothing.
CommentBodies ==
    {<<>>, Chars("a"), Chars("{{b}}"), Chars("[[b]]"), Chars("&amp;"),
     Chars("<b>"), Chars("\n=h=\n"), Chars("--"), Chars("a-")}
Comments ==
    [before : {<<>>, Chars("x")}, body : CommentBodies, closed : {TRUE},
     after : {<<>>, Chars("x"), Chars("-->")}, then : BOOLEAN]
    \cup [before : {<<>>, Chars("x")},
          body : {<<>>, Chars("a"), Chars("a--"), Chars("a->")},
          closed : {FALSE}, after : {<<>>}, then : BOOLEAN]

CommentSource(c) ==
    c.before \o Chars("<!--") \o c.body
    \o (IF c.closed THEN Chars("-->") ELSE <<>>) \o c.after
    \o (IF c.then THEN Chars("{{c}}") ELSE <<>>)

CommentInputs == {CommentSource(c) : c \in Comments}

\* Tags with markup in their body, of names that admit nested markup and of
\* names that do not.
BodyMarkup ==
    {Chars("x"), Chars("{{a}}"), Chars("{{{a}}}"), Chars("[[a]]"), Chars("&amp;"),
     Chars("<!--c-->"), Chars("<i>x</i>"), Chars("\n=h=\n")}
TagsWithBody == [name : {Chars("nowiki"), Chars("PRE"), Chars("b")}, body : BodyMarkup]

TagSource(t) ==
    Chars("<") \o t.name \o Chars(">") \o t.body \o Chars("</") \o t.name
    \o Chars(">")

BodyInputs == {TagSource(t) : t \in TagsWithBody}

\* Routes that fail: an opener of each kind that is never closed, after a
\* text, at the top and inside the parameter of a template.
FailingOpeners ==
    {Chars("[[a"), Chars("<!--a"), Chars("&a"), Chars("<a"), Chars("<a>b</c>"),
     Chars("\n==a"), Chars("{{a")}
FailingInputs ==
    {Chars("x") \o o : o \in FailingOpeners}
    \cup {Chars("{{t|x") \o o \o Chars("}}") : o \in FailingOpeners}

\* Tags whose attribute has a quoted value, with text right after the closing
\* quote or with none.
QuotedValues == [value : {Chars("c"), Chars("cc")}, rest : {<<>>, Chars("d"), Chars("dd")}]

QuotedValue(q) == <<"\"">> \o q.value \o <<"\"">> \o q.rest

QuotedSource(q) == Chars("<a b=") \o QuotedValue(q) \o Chars("/>")

QuotedInputs == {QuotedSource(q) : q \in QuotedValues}

\* Tags with one attribute and runs of spaces before its name, before its
\* `=` and after it.
MaxPad == 2
Paddings == [first : 1..MaxPad, before_eq : 0..MaxPad, after_eq : 0..MaxPad]

PaddedSource(p) ==
    Chars("<a") \o Repeat(" ", p.first) \o Chars("b")
    \o Repeat(" ", p.before_eq) \o Chars("=") \o Repeat(" ", p.after_eq)
    \o Chars("c/>")

PaddedInputs == {PaddedSource(p) : p \in Paddings}

\* Headings one after another, inside a template's parameter, and with a
\* line that begins with `=` inside a tag, a template or a wikilink of the
\* title.
ScanInputs ==
    {Chars("=a=\n=b="), Chars("=a\n=b="), Chars("=a=\n=b"),
     Chars("=a<b>\n=c=</b>="), Chars("=a={{t|v=\n=b=}}"),
     Chars("={{t|v=\n=b=}}="), Chars("=[[a|\n=b=]]=")}

\* Heading lines with several runs of "=" after the opening run: a run of m
\* "=", then two or three times a letter and a run of "=", then the end of
\* the input or of the line.
MaxRuns == 3
RunLengths == {1, 2, 7}
ManyRuns ==
    [m : RunLengths,
     runs : UNION {[1..k -> RunLengths] : k \in 2..MaxRuns},
     after : {<<>>, Chars("\nx")}]

TitleLetter(i) == <<"a", "b", "c", "d", "e">>[i]

\* The title up to, and without, its n-th run.
TitleBefore(h, n) ==
    Join([i \in 1..n |->
            <<TitleLetter(i)>>
            \o (IF i < n THEN Rep(Chars("="), h.runs[i]) ELSE <<>>)])

ManyRunsSource(h) ==
    Rep(Chars("="), h.m) \o TitleBefore(h, Len(h.runs))
    \o Rep(Chars("="), h.runs[Len(h.runs)]) \o h.after

ManyRunsInputs == {ManyRunsSource(h) : h \in ManyRuns}

\* Templates whose name is "foo" and a newline, after nothing, whitespace or
\* newlines, and then whitespace or none, a word or none, and a parameter or
\* none.
TemplateNames ==
    [pre : {<<>>, Chars(" "), Chars("\n"), Chars("\n \n")},
     ws : {<<>>, Chars(" "), Chars("\n")},
     word : {<<>>, Chars("bar"), Chars(":"), Chars("]")},
     param : BOOLEAN]

TemplateNameSource(n) ==
    Chars("{{") \o n.pre \o Chars("foo\n") \o n.ws \o n.word
    \o (IF n.param THEN Chars("|x") ELSE <<>>) \o Chars("}}")

TemplateNameInputs == {TemplateNameSource(n) : n \in TemplateNames}

\* Runs of n "{", a name with a separator or without, and m "}", at the
\* end of the input or before a letter.
MaxBraces == 7
BraceRuns ==
    [n : 2..MaxBraces, separated : BOOLEAN, m : 0..MaxBraces,
     after : {<<>>, Chars("x")}]

BraceRunSource(r) ==
    Rep(Chars("{"), r.n) \o Chars("a")
    \o (IF r.separated THEN Chars("|b") ELSE <<>>)
    \o Rep(Chars("}"), r.m) \o r.after

BraceRunInputs == {BraceRunSource(r) : r \in BraceRuns}

Inputs ==
    Words(TemplatePieces, MaxPieces) \cup Words(LinkPieces, MaxPieces)
    \cup Words(EntityPieces, MaxPieces) \cup Words(TagPieces, MaxPieces)
    \cup {Nested(n) : n \in 1..MaxNest} \cup {Headings(n) : n \in 1..MaxEquals}
    \cup Readme \cup AtCap \cup TemplateInputs \cup OuterInputs
    \cup HeadingInputs
    \cup BrokenInputs
    \cup CandidateInputs
    \cup ClosedInputs
    \cup CommentInputs
    \cup BodyInputs
    \cup FailingInputs
    \cup QuotedInputs
    \cup PaddedInputs
    \cup ScanInputs
    \cup ManyRunsInputs
    \cup TemplateNameInputs
    \cup BraceRunInputs

(***************************************************************************)
(* Specification                                                           *)
(***************************************************************************)
\* Tokenizer.__init__, and a string to tokenize.
InitOn(strings) ==
    /\ input \in strings
    /\ text = <<>>
    /\ head = 0
    /\ stacks = <<>>
    /\ global = {}
    /\ depth = 0
    /\ cycles = 0
    /\ cs = <<>>
    /\ pc = "init"
    /\ out = <<>>
    /\ first = <<>>

Init == InitOn(Inputs)

Next ==
    \/ Tokenize
    \/ ParseUnsafe
    \/ ParseText
    \/ ParseEndFail
    \/ ParseEndReturn
    \/ ParseCommentEnd
    \/ ParseLiteral
    \/ ParseTemplateOrArgument
    \/ HandleTemplateParam
    \/ HandleTemplateParamValue
    \/ HandleTemplateEnd
    \/ HandleArgumentSeparator
    \/ HandleArgumentEnd
    \/ ParseWikilink
    \/ HandleWikilinkSeparator
    \/ HandleWikilinkEnd
    \/ ParseHeading
    \/ HandleHeadingEnd
    \/ ParseHeadingNewline
    \/ ParseEntity
    \/ ReallyParseEntity
    \/ ParseComment
    \/ HandleTagOpenClose
    \/ ParseTag
    \/ HandleTagCloseClose
    \/ HandleTagChunk
    \/ ReallyParseTagEnd
    \/ ReallyParseTagCloseOpen
    \/ ReallyParseTagSelfclose

Spec == Init /\ [][Next]_vars

\* A Tokenizer that is used again: tokenize is called a second time, with the
\* same string, once the first call has returned.
SpecReuse == Init /\ [][Next \/ TokenizeAgain]_vars

\* The text of a returned list of Text tokens is tokenized in its turn.
SpecText == Init /\ [][Next \/ TokenizeText]_vars

\* Spec with one more input, long enough in its retries for the cycle counter
\* to pass MAX_CYCLES.
LongSpec == InitOn(Inputs \cup {Unclosed(MaxUnclosed)}) /\ [][Next]_vars

\* tokenize runs on the thread that called it, and that thread keeps running:
\* while the call has not returned, a step of it is eventually taken.  Every
\* branch of the two loops is an action, so a step of Next is possible as
\* long as pc is "init" or "run".  StillRunning, a step no behaviour of Spec
\* takes, states that enabling condition as a condition on pc.
StillRunning ==
    /\ pc \in {"init", "run"}
    /\ pc' = "error"
    /\ UNCHANGED <<input, text, head, stacks, global, depth, cycles, cs, out,
                   first>>

FairLongSpec == LongSpec /\ WF_vars(StillRunning \/ Next)

FairSpec == Spec /\ WF_vars(StillRunning \/ Next)

(***************************************************************************)
(* What the token list stands for                                          *)
(***************************************************************************)
\* The last position before i of a token of one of the types, 0 if none.
Last(tokens, i, types) ==
    LET before == {j \in 1..(i - 1) : tokens[j].type \in types}
    IN IF before = {} THEN 0
       ELSE CHOOSE j \in before : \A k \in before : k <= j

\* What is left to write of the attribute that is open before position i,
\* where the next attribute or the end of the opening tag is: the closing
\* quote of a quoted value, the padding before an "=" that did not come.
AttrEnd(tokens, i) ==
    LET start == Last(tokens, i, {"TagAttrStart", "TagOpenOpen"})
        has(type) == \E j \in (start + 1)..(i - 1) : tokens[j].type = type
    IN IF start = 0 THEN <<>>
       ELSE IF tokens[start].type # "TagAttrStart" THEN <<>>
       ELSE (IF has("TagAttrQuote") THEN <<"\"">> ELSE <<>>)
            \o (IF has("TagAttrEquals") THEN <<>>
                ELSE tokens[start].pad_before_eq)

\* The "=" of an attribute between its paddings.
AttrEquals(tokens, i) ==
    LET start == Last(tokens, i, {"TagAttrStart"})
    IN IF start = 0 THEN <<"=">>
       ELSE tokens[start].pad_before_eq \o <<"=">> \o tokens[start].pad_after_eq

\* The "=" that close a heading: as many as opened it.
HeadingClose(tokens, i) ==
    LET start == Last(tokens, i, {"HeadingStart"})
    IN IF start = 0 THEN <<>> ELSE Repeat("=", tokens[start].level)

\* The wikicode the token at position i stands for.
Literal(tokens, i) ==
    LET t == tokens[i]
    IN CASE t.type = "Text" -> t.text
         [] t.type = "TemplateOpen" -> <<"{", "{">>
         [] t.type = "TemplateParamSeparator" -> <<"|">>
         [] t.type = "TemplateParamEquals" -> <<"=">>
         [] t.type = "TemplateClose" -> <<"}", "}">>
         [] t.type = "ArgumentOpen" -> <<"{", "{", "{">>
         [] t.type = "ArgumentSeparator" -> <<"|">>
         [] t.type = "ArgumentClose" -> <<"}", "}", "}">>
         [] t.type = "WikilinkOpen" -> <<"[", "[">>
         [] t.type = "WikilinkSeparator" -> <<"|">>
         [] t.type = "WikilinkClose" -> <<"]", "]">>
         [] t.type = "HTMLEntityStart" -> <<"&">>
         [] t.type = "HTMLEntityNumeric" -> <<"#">>
         [] t.type = "HTMLEntityHex" -> <<t.char>>
         [] t.type = "HTMLEntityEnd" -> <<";">>
         [] t.type = "HeadingStart" -> Repeat("=", t.level)
         [] t.type = "HeadingEnd" -> HeadingClose(tokens, i)
         [] t.type = "CommentStart" -> <<"<", "!", "-", "-">>
         [] t.type = "CommentEnd" -> <<"-", "-", ">">>
         [] t.type = "TagOpenOpen" -> <<"<">>
         [] t.type = "TagAttrStart" -> AttrEnd(tokens, i) \o t.pad_first
         [] t.type = "TagAttrEquals" -> AttrEquals(tokens, i)
         [] t.type = "TagAttrQuote" -> <<"\"">>
         [] t.type = "TagCloseOpen" ->
                AttrEnd(tokens, i) \o t.padding \o <<">">>
         [] t.type = "TagCloseSelfclose" ->
                AttrEnd(tokens, i) \o t.padding \o <<"/", ">">>
         [] t.type = "TagOpenClose" -> <<"<", "/">>
         [] t.type = "TagCloseClose" -> <<">">>

\* The wikicode a token list stands for.
Render(tokens) == Join([i \in 1..Len(tokens) |-> Literal(tokens, i)])

Opens(kind) == <<[open |-> TRUE, kind |-> kind]>>
Closes(kind) == <<[open |-> FALSE, kind |-> kind]>>

\* The brackets a token is: what it opens and what it closes.
Brackets(t) ==
    CASE t.type = "TemplateOpen" -> Opens("Template")
      [] t.type = "TemplateClose" -> Closes("Template")
      [] t.type = "ArgumentOpen" -> Opens("Argument")
      [] t.type = "ArgumentClose" -> Closes("Argument")
      [] t.type = "WikilinkOpen" -> Opens("Wikilink")
      [] t.type = "WikilinkClose" -> Closes("Wikilink")
      [] t.type = "HeadingStart" -> Opens("Heading")
      [] t.type = "HeadingEnd" -> Closes("Heading")
      [] t.type = "HTMLEntityStart" -> Opens("HTMLEntity")
      [] t.type = "HTMLEntityEnd" -> Closes("HTMLEntity")
      [] t.type = "CommentStart" -> Opens("Comment")
      [] t.type = "CommentEnd" -> Closes("Comment")
      [] t.type = "TagOpenOpen" -> Opens("TagOpen")
      [] t.type = "TagCloseSelfclose" -> Closes("TagOpen")
      [] t.type = "TagCloseOpen" -> Closes("TagOpen") \o Opens("TagBody")
      [] t.type = "TagOpenClose" -> Closes("TagBody") \o Opens("TagClose")
      [] t.type = "TagCloseClose" -> Closes("TagClose")
      [] OTHER -> <<>>

\* Every bracket that opens is closed later by one of its kind, no bracket
\* closes what is not open, and the pairs do not cross: the bracket that
\* closes the one at i is the first after i to bring the number of open
\* brackets below what it is at i.
WellNested(b) ==
    LET open(k) == Cardinality({j \in 1..k : b[j].open})
                   - Cardinality({j \in 1..k : ~b[j].open})
        close(i) == CHOOSE j \in (i + 1)..Len(b) :
                        /\ open(j) < open(i)
                        /\ \A k \in (i + 1)..(j - 1) : open(k) >= open(i)
    IN /\ \A k \in 1..Len(b) : open(k) >= 0
       /\ open(Len(b)) = 0
       /\ \A i \in 1..Len(b) : b[i].open => b[close(i)].kind = b[i].kind

Balanced(tokens) ==
    WellNested(Join([i \in 1..Len(tokens) |-> Brackets(tokens[i])]))

\* No Text token is empty and none comes right after another.
Coalesced(tokens) ==
    \A i \in 1..Len(tokens) :
        tokens[i].type = "Text" =>
            /\ tokens[i].text # <<>>
            /\ i < Len(tokens) => tokens[i + 1].type # "Text"

HasToken(tokens, type) == \E i \in 1..Len(tokens) : tokens[i].type = type

(***************************************************************************)
(* Properties                                                              *)
(***************************************************************************)
\* C1: text preservation.  The texts of the Text tokens and the literals of
\* the markup tokens that tokenize returns, put together in order, are the
\* input.
TextPreserved == pc = "done" => Render(out) = input

DepthBounded == depth <= MAX_DEPTH /\ Len(stacks) <= MAX_DEPTH

\* C4: in one call of tokenize the frames pushed, which the cycle counter
\* counts, are at most MAX_CYCLES.
CyclesBounded == cycles <= MAX_CYCLES

\* C5: balanced pairs.  In the token list tokenize returns every opening
\* token has its one closing token later in the list, and the pairs are
\* nested in one another without crossing.
BalancedPairs == pc = "done" => Balanced(out)

\* A template inside a template has been returned.
NestedTemplates ==
    /\ pc = "done"
    /\ \E i, j \in 1..Len(out) :
           /\ i < j
           /\ out[i].type = "TemplateOpen"
           /\ out[j].type = "TemplateOpen"
    /\ HasToken(out, "TemplateClose")

\* C6: no adjacent Text.  In the token buffer of every frame, at every step,
\* and in the list tokenize returns, no Text token is empty and none comes
\* right after another Text token.
NoAdjacentText ==
    /\ \A f \in 1..Len(stacks) : Coalesced(stacks[f].stack)
    /\ Coalesced(out)

\* The title of a heading, a list that starts with Text, has been written
\* after the "=" the heading start does not count: one Text token.
MergedIntoPendingText ==
    /\ pc = "done"
    /\ input = <<"=", "=", "a", "=">>
    /\ out = <<HeadingStart(1), Text(<<"=", "a">>), Tok("HeadingEnd")>>

\* C7: every frame that is pushed is removed once.  The depth counter is the
\* number of frames on the stack, no pop finds the stack empty, and when
\* tokenize has returned the stack is empty and the depth counter is 0.
FramesBalanced ==
    /\ depth = Len(stacks)
    /\ pc # "error"
    /\ pc = "done" => stacks = <<>> /\ depth = 0

\* A route has failed inside the key of a template parameter, two frames were
\* removed for it, and tokenize has returned.
FailedInParamKey ==
    /\ pc = "done"
    /\ input = <<"{", "{", "a", "|">>
    /\ cycles = 4
    /\ stacks = <<>>

\* The token list of the bottom frame, its pending text written.
RootTokens ==
    IF stacks[1].textbuffer = <<>> THEN stacks[1].stack
    ELSE Append(stacks[1].stack, Text(Join(stacks[1].textbuffer)))

\* C8: the context of the bottom frame is 0 at every step, no flag is ever
\* written to it, and what tokenize returns is the token list of the bottom
\* frame, the only frame left.
RootReturned ==
    /\ [](stacks # <<>> => stacks[1].context = {})
    /\ [][pc = "run" /\ pc' = "done" =>
              Len(stacks) = 1 /\ out' = RootTokens]_vars

\* A template with a parameter that has a key and a value has been returned:
\* the value's frame was popped with keep_context, the FAIL_NEXT test after
\* the template was made at the bottom frame.
KeptContextBelowRoot ==
    /\ pc = "done"
    /\ HasToken(out, "TemplateParamEquals")
    /\ HasToken(out, "TemplateClose")

\* C9: a second call of tokenize on the same Tokenizer returns what the first
\* call, on a Tokenizer just made, returned for the same string.
SecondCallSame == (pc = "done" /\ first # <<>>) => out = first[1]

TextOnlyIdempotent ==
    (pc = "done" /\ first # <<>>) => TextOnly(out) /\ out = first[1]

\* A broken wikilink came out as one Text token, and its text has been
\* tokenized in its turn.
RetokenizedBrokenLink ==
    /\ pc = "done"
    /\ first = <<out>>
    /\ out = <<Text(<<"[", "[", "\n", "]", "]">>)>>

\* The state with its two counters at 0: what the scanner would do at the
\* head if neither cap were reached.
Uncapped(s) == [s EXCEPT !.depth = 0, !.cycles = 0]

\* The head of s is at an opener that is not parsed for the caps alone.
CappedOpener(s) ==
    /\ ~_can_recurse(s)
    /\ Branch(Uncapped(s)) \in {"template_or_argument", "wikilink", "tag"}

\* A step of _parse at such an opener pushes no frame and writes the opener's
\* first character as text.
CappedStep ==
    IF InParse
    THEN LET c == Checked(Cur)
         IN (c.ok /\ CappedOpener(c.s)) =>
                /\ stacks' = _write_text(c.s, _read(Cur, 0)).stacks
                /\ head' = head + 1
                /\ depth' = depth /\ cycles' = cycles
                /\ pc' = "run"
    ELSE TRUE

\* The chunks the opening of a tag goes on with.
TagChunks ==
    IF TopAct(Cur).chunks # <<>> THEN TopAct(Cur).chunks
    ELSE tag_splitter_split(_read(Cur, 0))

\* The chunk is an opener for _parse_tag_chunk.
ChunkOpener(s, chunk) ==
    \/ chunk = <<"{">> /\ _read(s, 1) = <<"{">>
    \/ chunk = <<"[">> /\ _read(s, 1) = <<"[">>
    \/ chunk = <<"<">>

\* A step of the opening of a tag whose chunk is an opener handed to
\* _parse_tag_chunk when a cap is reached: no frame is pushed for it, and the
\* chunk is written as text.  r is what _handle_tag_chunk has done before.
CappedChunkStep ==
    IF InTag /\ (TopAct(Cur).chunks # <<>> \/ TagBranch(Cur) = "chunks")
    THEN LET chunk == Head(TagChunks)
             r == tag_chunk([Cur EXCEPT !.cs[Len(cs)].chunks = Tail(TagChunks)],
                            chunk)
         IN (r.end = "chunk" /\ ~_can_recurse(r.s) /\ ChunkOpener(r.s, chunk)) =>
                /\ stacks' = _write_text(r.s, chunk).stacks
                /\ depth' = r.s.depth /\ cycles' = r.s.cycles
                /\ pc' = "run"
    ELSE TRUE

\* C12: reaching a cap raises no error.  At an opener met when _can_recurse
\* is false, in _parse or in the opening of a tag, no frame is pushed and the
\* opener is written as text; no error leaves tokenize, and it returns.
CapsAreSilent ==
    /\ [][CappedStep /\ CappedChunkStep]_vars
    /\ [](pc \in {"init", "run", "done"})
    /\ <>(pc = "done")

\* A wikilink met with more than MAX_DEPTH frames on the stack has come out
\* as text inside the templates around it.
CappedLinkIsText ==
    /\ pc = "done"
    /\ input = Capped(CapNest, Chars("[[c]]"))
    /\ HasToken(out, "TemplateClose")
    /\ ~HasToken(out, "WikilinkOpen")

\* A text, if it is not empty, as a Text token.
TextToken(str) == IF str = <<>> THEN <<>> ELSE <<Text(str)>>

\* The tokens of a well-formed template: the name, then for each parameter a
\* separator, the key and, with an "=", the equals token and the value.
Expected(t) ==
    TextToken(t.before)
    \o <<Tok("TemplateOpen"), Text(t.name)>>
    \o Join([i \in 1..Len(t.params) |->
                <<Tok("TemplateParamSeparator"), Text(t.params[i].key)>>
                \o (IF t.params[i].eq
                    THEN <<Tok("TemplateParamEquals"), Text(t.params[i].value)>>
                    ELSE <<>>)])
    \o <<Tok("TemplateClose")>>
    \o TextToken(t.after)

\* C13: for a well-formed template with plain name, keys and values tokenize
\* returns TemplateOpen, the name, for each parameter in turn a separator,
\* the key and, if it has an "=", one TemplateParamEquals and the value, then
\* TemplateClose, with the text before and after as Text tokens around.
TemplateTokens ==
    (pc = "done" /\ input \in TemplateInputs) =>
        \A t \in WellFormed : input = Source(t) => out = Expected(t)

\* The template of test_readme_1 has been returned, its third parameter with
\* a key and a value.
ReadmeTemplate ==
    /\ pc = "done"
    /\ input = Chars("I has a template! {{foo|bar|baz|eggs=spam}} See it?")
    /\ Len(out) = 13
    /\ out[11] = Text(Chars("spam"))


FieldTokens(f) ==
    Join([i \in 1..Len(f.pieces) |->
             TextToken(f.pieces[i].text) \o Expected(f.pieces[i].inner)])
    \o TextToken(f.tail)

\* The tokens of an outer template with templates in its parameter: each
\* inner template as its own pair inside the outer pair, and the "=" after
\* the key as the outer template's TemplateParamEquals.
OuterExpected(t) ==
    <<Tok("TemplateOpen"), Text(Chars("a")), Tok("TemplateParamSeparator")>>
    \o FieldTokens(t.key)
    \o (IF t.eq THEN <<Tok("TemplateParamEquals")>> \o FieldTokens(t.value)
        ELSE <<>>)
    \o <<Tok("TemplateClose")>>

\* The tokens of test_readme_3, {{foo|{{bar}}={{baz|{{spam}}}}}}.
Readme3Tokens ==
    <<Tok("TemplateOpen"), Text(Chars("foo")), Tok("TemplateParamSeparator"),
      Tok("TemplateOpen"), Text(Chars("bar")), Tok("TemplateClose"),
      Tok("TemplateParamEquals"),
      Tok("TemplateOpen"), Text(Chars("baz")), Tok("TemplateParamSeparator"),
      Tok("TemplateOpen"), Text(Chars("spam")), Tok("TemplateClose"),
      Tok("TemplateClose"), Tok("TemplateClose")>>

\* C14: a well-formed template in a parameter key or a parameter value of an
\* outer template is returned as its own TemplateOpen...TemplateClose pair
\* inside the outer pair, an "=" after a key that holds templates is the
\* outer template's TemplateParamEquals, and the outer template is not
\* returned as literal text.
NestedInParameter ==
    pc = "done" =>
        /\ \A t \in Outer : input = OuterSource(t) => out = OuterExpected(t)
        /\ input = Chars("{{foo|{{bar}}={{baz|{{spam}}}}}}")
               => out = Readme3Tokens

\* The outer template whose key holds one template has been returned.
TemplateValuedKey ==
    /\ pc = "done"
    /\ input = Chars("{{foo|{{bar}}={{baz|{{spam}}}}}}")
    /\ out = Readme3Tokens

HeadingLevel(h) == Min(h.m, Min(h.n, 6))

\* The tokens of a heading line: the surplus "=" of either run are text of
\* the title, in one Text token with it.
HeadingExpected(h) ==
    TextToken(h.before)
    \o <<HeadingStart(HeadingLevel(h)),
         Text(Rep(Chars("="), h.m - HeadingLevel(h)) \o h.title
              \o Rep(Chars("="), h.n - HeadingLevel(h))),
         Tok("HeadingEnd")>>
    \o TextToken(h.after)

\* C15: a line that starts with a run of m "=", has a title and closes with
\* a run of n "=" is returned as HeadingStart of level min(m, n, 6), a level
\* within 1..6, the m - level surplus opening "=" as text at the start of
\* the title, the n - level surplus closing "=" as text at its end, and
\* HeadingEnd.
HeadingLevels ==
    pc = "done" =>
        \A h \in HeadingLines :
            input = HeadingSource(h) =>
                HeadingLevel(h) \in 1..6 /\ out = HeadingExpected(h)

\* A heading opened by seven "=" and closed by two has been returned with
\* level 2 and five "=" before its title.
SurplusEqualsInTitle ==
    /\ pc = "done"
    /\ input = Chars("=======Heading==\ntext")
    /\ out = <<HeadingStart(2), Text(Chars("=====Heading")),
               Tok("HeadingEnd"), Text(Chars("\ntext"))>>

WikilinkTypes == {"WikilinkOpen", "WikilinkSeparator", "WikilinkClose"}

\* The tokens of a broken wikilink: one Text token holds the text before it,
\* its "[[" and its title; the wikilinks before and after it are whole.
BrokenExpected(b) ==
    (IF b.link
     THEN <<Tok("WikilinkOpen"), Text(Chars("foo")), Tok("WikilinkSeparator"),
            Text(Chars("bar")), Tok("WikilinkClose")>>
     ELSE <<>>)
    \o <<Text(b.before \o Chars("[[") \o b.title)>>
    \o (IF b.then
        THEN <<Tok("WikilinkOpen"), Text(Chars("c")), Tok("WikilinkClose")>>
        ELSE <<>>)

\* C16: a "[[" whose title reaches the end of the input before "]]", or holds
\* a newline, a "[" or a "}", yields no wikilink token: its two characters
\* are text, in one Text token with the text around them, and what follows
\* them is scanned from right after them.
BrokenLinkIsText ==
    pc = "done" =>
        \A b \in BrokenLinks :
            input = BrokenSource(b) => out = BrokenExpected(b)

\* The spec's example has been returned: the wikilink, then one Text token.
BrokenAfterLink ==
    /\ pc = "done"
    /\ input = Chars("[[foo|bar]] and [[broken")
    /\ Len(out) = 6
    /\ out[5] = Tok("WikilinkClose")
    /\ out[6] = Text(Chars(" and [[broken"))

\* The number a string of digits denotes in a base.
RECURSIVE NumberOf(_, _, _)
NumberOf(str, base, acc) ==
    IF str = <<>> THEN acc
    ELSE NumberOf(Tail(str), base, acc * base + digit_value(Head(str)))

AllIn(str, chars) == \A i \in 1..Len(str) : str[i] \in chars

\* Whether a candidate is an entity: it has a body and a ";", and the body
\* is a name of letters and digits in the entity table, or decimal or hex
\* digits of a value from 1 to 0x10FFFF.
IsEntity(c) ==
    /\ c.semi
    /\ c.body # <<>>
    /\ CASE c.kind = "name" ->
                AllIn(c.body, Digits \cup Letters) /\ c.body \in entitydefs
         [] c.kind = "decimal" ->
                /\ AllIn(c.body, Digits)
                /\ NumberOf(c.body, 10, 0) \in 1..1114111
         [] c.kind = "hex" ->
                /\ AllIn(c.body, Digits \cup HexLetters)
                /\ NumberOf(c.body, 16, 0) \in 1..1114111

CandidateExpected(c) ==
    IF IsEntity(c)
    THEN TextToken(c.before)
         \o <<Tok("HTMLEntityStart")>>
         \o (IF c.kind = "name" THEN <<>> ELSE <<Tok("HTMLEntityNumeric")>>)
         \o (IF c.kind = "hex" THEN <<HTMLEntityHex(c.x[1])>> ELSE <<>>)
         \o <<Text(c.body), Tok("HTMLEntityEnd")>>
         \o TextToken(c.after)
    ELSE <<Text(CandidateSource(c))>>

\* C17: an "&" starts an entity, HTMLEntityStart to HTMLEntityEnd, if and
\* only if a body and ";" follow it, the body a name of ASCII letters and
\* digits that is in the entity table, or "#" and decimal digits, or "#x" or
\* "#X" and hex digits, of a value from 1 to 0x10FFFF; otherwise the "&"
\* alone is written as text and the scan resumes at the segment after it.
EntityIffValid ==
    pc = "done" =>
        \A c \in Candidates :
            input = CandidateSource(c) => out = CandidateExpected(c)

\* The entity of the largest value has been returned.
LargestEntity ==
    /\ pc = "done"
    /\ input = Chars("&#x10FFFF;")
    /\ out = <<Tok("HTMLEntityStart"), Tok("HTMLEntityNumeric"),
               HTMLEntityHex("x"), Text(Chars("10FFFF")),
               Tok("HTMLEntityEnd")>>

\* A string without the whitespace at its start.
RECURSIVE TrimStart(_)
TrimStart(str) ==
    IF str # <<>> /\ str[1] \in SpaceChars THEN TrimStart(Tail(str)) ELSE str

\* The two normalisations of a tag name: without the whitespace around it,
\* or after it only, and in lower case.
Trimmed(str) == lower(TrimStart(rstrip(str)))
EndTrimmed(str) == lower(rstrip(str))

\* A ">" is read in a TAG_CLOSE context.
AtClosing == Reads({<<">">>}) /\ Takes(Checked(Cur), "tag_close_close")

\* The tokens of the closing frame and of the tag frame below it.
ClosingTokens == _pop(Checked(Cur).s, FALSE).stack
OpeningTokens == _stack(_pop(Checked(Cur).s, FALSE).s)

\* The _parse_tag that opened the tag being closed.
OpeningCall ==
    cs[CHOOSE i \in 1..Len(cs) :
          /\ cs[i].fn = "_parse_tag"
          /\ \A j \in (i + 1)..Len(cs) : cs[j].fn # "_parse_tag"]

\* The step at the ">" has committed the tag: its tokens, TagCloseClose the
\* last, are in the frame below, and the scan goes on after the ">".
TagCommitted ==
    /\ pc' = "run"
    /\ Len(stacks') = Len(stacks) - 2
    /\ head' \in {head, head + 1}
    /\ stacks'[Len(stacks')].stack # <<>>
    /\ stacks'[Len(stacks')].stack[Len(stacks'[Len(stacks')].stack)]
           = Tok("TagCloseClose")

\* The step at the ">" has failed the route of the tag: its frames are gone,
\* its "<" is pending text, and the scan goes on after the "<".
TagFailed ==
    /\ pc' = "run"
    /\ Len(stacks') = Len(stacks) - 2
    /\ head' \in {OpeningCall.reset, OpeningCall.reset + 1}
    /\ stacks'[Len(stacks')].textbuffer # <<>>
    /\ stacks'[Len(stacks')].textbuffer[Len(stacks'[Len(stacks')].textbuffer)]
           = <<"<">>

\* C18 as stated: at a ">" read in a TAG_CLOSE context the tag is committed
\* if and only if the closing frame holds exactly one Text token whose
\* text, without the whitespace around it and in lower case, is the opening
\* tag's name (the second token of the tag frame) taken the same way;
\* otherwise the route of the tag fails and its "<" becomes text.
CloseMatchesTrimmed ==
    [][AtClosing =>
          IF /\ Len(ClosingTokens) = 1
             /\ ClosingTokens[1].type = "Text"
             /\ Trimmed(ClosingTokens[1].text) = Trimmed(OpeningTokens[2].text)
          THEN TagCommitted
          ELSE TagFailed]_vars

\* C18, amended: the same with only the whitespace after the name removed,
\* so "</ref >" and "</REF>" close "<ref>" and "</ ref>" does not.
CloseMatchesEndTrimmed ==
    [][AtClosing =>
          IF /\ Len(ClosingTokens) = 1
             /\ ClosingTokens[1].type = "Text"
             /\ EndTrimmed(ClosingTokens[1].text)
                    = EndTrimmed(OpeningTokens[2].text)
          THEN TagCommitted
          ELSE TagFailed]_vars

\* A tag closed by its name in another case has been returned.
ClosedInOtherCase ==
    /\ pc = "done"
    /\ input = Chars("<ref>x</REF>")
    /\ out = <<TagOpenOpen(TRUE), Text(Chars("ref")), TagCloseOpen(<<>>),
               Text(Chars("x")), Tok("TagOpenClose"), Text(Chars("REF")),
               Tok("TagCloseClose")>>

\* The tokens of a comment: its body is one Text token, or none when it is
\* empty; without a "-->" the "<!--" is text and what follows is scanned.
CommentExpected(c) ==
    (IF c.closed
     THEN TextToken(c.before)
          \o <<Tok("CommentStart")>> \o TextToken(c.body)
          \o <<Tok("CommentEnd")>> \o TextToken(c.after)
     ELSE <<Text(c.before \o Chars("<!--") \o c.body)>>)
    \o (IF c.then
        THEN <<Tok("TemplateOpen"), Text(Chars("c")), Tok("TemplateClose")>>
        ELSE <<>>)

\* Between a CommentStart and its CommentEnd there is at most one Text token
\* and nothing else.
OnlyTextInComment(tokens) ==
    \A i \in 1..Len(tokens) :
        tokens[i].type = "CommentStart" =>
            /\ i < Len(tokens)
            /\ \/ tokens[i + 1] = Tok("CommentEnd")
               \/ /\ tokens[i + 1].type = "Text"
                  /\ i + 1 < Len(tokens)
                  /\ tokens[i + 2] = Tok("CommentEnd")

\* C19: inside a comment no markup is recognised. While a comment is
\* scanned its frame holds no token, only pending text; in what tokenize
\* returns there is at most one Text token and nothing else between
\* CommentStart and CommentEnd; the comment ends at the first "-->" and the
\* scan resumes right after its ">"; a "<!--" with no later "-->" yields no
\* CommentStart and is the text "<!--".
CommentIsText ==
    /\ \A i \in 1..Len(stacks) :
           And(stacks[i].context, COMMENT) => stacks[i].stack = <<>>
    /\ pc = "done" =>
           /\ OnlyTextInComment(out)
           /\ \A c \in Comments :
                  input = CommentSource(c) => out = CommentExpected(c)

\* A comment that holds a template's text has been returned, and the
\* template after it as a template.
MarkupInComment ==
    /\ pc = "done"
    /\ input = Chars("<!--{{b}}-->{{c}}")
    /\ out = <<Tok("CommentStart"), Text(Chars("{{b}}")), Tok("CommentEnd"),
               Tok("TemplateOpen"), Text(Chars("c")), Tok("TemplateClose")>>

\* The number of tokens of the given types between two places.
Count(tokens, from, to, types) ==
    Cardinality({k \in (from + 1)..(to - 1) : tokens[k].type \in types})

\* The place of the token that ends the opening of the tag opened at i:
\* the first TagCloseOpen or TagCloseSelfclose after as many of them as
\* there are tags opened after i; 0 if there is none.
OpeningEnd(tokens, i) ==
    LET ends == {"TagCloseOpen", "TagCloseSelfclose"}
        own == {j \in (i + 1)..Len(tokens) :
                   /\ tokens[j].type \in ends
                   /\ Count(tokens, i, j, {"TagOpenOpen"})
                          = Count(tokens, i, j, ends)}
    IN IF own = {} THEN 0 ELSE CHOOSE j \in own : \A k \in own : j <= k

\* The place of the first TagOpenClose after j, or past the last token.
BodyEnd(tokens, j) ==
    LET closes == {e \in (j + 1)..Len(tokens) : tokens[e].type = "TagOpenClose"}
    IN IF closes = {} THEN Len(tokens) + 1
       ELSE CHOOSE e \in closes : \A k \in closes : e <= k

RecursiveMarkup ==
    {"TemplateOpen", "ArgumentOpen", "WikilinkOpen", "HeadingStart",
     "HTMLEntityStart", "CommentStart", "TagOpenOpen"}

\* C20: when the name of an opened tag is not parsable according to
\* is_parsable, no TemplateOpen, ArgumentOpen, WikilinkOpen, HeadingStart,
\* HTMLEntityStart, CommentStart or TagOpenOpen is returned between its
\* TagCloseOpen and its TagOpenClose.
NonParsableBodyIsText ==
    pc = "done" =>
        \A i \in 1..(Len(out) - 1) :
            (/\ out[i].type = "TagOpenOpen"
             /\ out[i + 1].type = "Text"
             /\ ~is_parsable(out[i + 1].text)
             /\ OpeningEnd(out, i) # 0
             /\ out[OpeningEnd(out, i)].type = "TagCloseOpen")
            => Count(out, OpeningEnd(out, i), BodyEnd(out, OpeningEnd(out, i)),
                     RecursiveMarkup) = 0

\* A tag that is not parsable has been returned with a template in its body.
TemplateInNowiki ==
    /\ pc = "done"
    /\ input = Chars("<nowiki>{{a}}</nowiki>")
    /\ out = <<TagOpenOpen(TRUE), Text(Chars("nowiki")), TagCloseOpen(<<>>),
               Tok("TemplateOpen"), Text(Chars("a")), Tok("TemplateClose"),
               Tok("TagOpenClose"), Text(Chars("nowiki")),
               Tok("TagCloseClose")>>

\* The sub-scanners that speculate, and for an activation of one of them
\* the markers it began at.
Speculative ==
    {"_parse_wikilink", "_parse_comment", "_parse_entity", "_parse_tag",
     "_parse_heading", "_parse_template"}

OpeningMarkers(a) ==
    CASE a.fn = "_parse_wikilink" -> <<"[", "[">>
      [] a.fn = "_parse_comment" -> <<"<", "!", "-", "-">>
      [] a.fn = "_parse_entity" -> <<"&">>
      [] a.fn = "_parse_tag" -> <<"<">>
      [] a.fn = "_parse_heading" -> Repeat("=", a.best)
      [] a.fn = "_parse_template" -> <<"{", "{">>

\* The place of the first of these markers.
OpenedAt(a) ==
    CASE a.fn = "_parse_wikilink" -> a.reset - 1
      [] a.fn = "_parse_comment" -> a.reset - 3
      [] a.fn = "_parse_template" -> a.reset - 2
      [] OTHER -> a.reset

\* The number of frames when the speculation began: a template and an
\* entity push a frame of their own before their activation begins.
FramesBefore(a) ==
    IF a.fn \in {"_parse_template", "_parse_entity"} THEN a.frames - 1
    ELSE a.frames

\* The tokens that can end what the sub-scanner writes when its route
\* succeeds.
ClosingTypes(a) ==
    CASE a.fn = "_parse_wikilink" -> {"WikilinkClose"}
      [] a.fn = "_parse_comment" -> {"CommentEnd"}
      [] a.fn = "_parse_entity" -> {"HTMLEntityEnd"}
      [] a.fn = "_parse_tag" -> {"TagCloseClose", "TagCloseSelfclose"}
      [] a.fn = "_parse_heading" -> {"HeadingEnd"}
      [] a.fn = "_parse_template" -> {"TemplateClose"}

\* cs[i] is a speculation of one of the kinds, a template one only for a run
\* of two braces with nothing recognised in the run before it.
Speculation(i) ==
    /\ cs[i].fn \in Speculative
    /\ FramesBefore(cs[i]) >= 1
    /\ cs[i].fn = "_parse_template" =>
           /\ cs[i].braces = 2
           /\ stacks[cs[i].frames].stack = <<>>
           /\ stacks[cs[i].frames].textbuffer = <<>>

\* The speculation cs[i] is over after the step.
Ended(i) == Len(cs') < i \/ cs'[i] # cs[i]

\* The step has written the construct of cs[i] to the parent frame.
Committed(i) ==
    LET b == FramesBefore(cs[i])
        after == stacks'[b].stack
    IN /\ Len(stacks') >= b
       /\ Len(after) > Len(stacks[b].stack)
       /\ after[Len(after)].type \in ClosingTypes(cs[i])

\* What a failed route leaves: the frames there were before it, the parent
\* frame with its tokens and context and the opening markers added to its
\* pending text, and the head on the last marker's successor.
FailureEffect(i) ==
    LET b == FramesBefore(cs[i])
    IN /\ pc' = "run"
       /\ Len(stacks') = b
       /\ SubSeq(stacks', 1, b - 1) = SubSeq(stacks, 1, b - 1)
       /\ stacks'[b].stack = stacks[b].stack
       /\ stacks'[b].context = stacks[b].context
       /\ stacks'[b].textbuffer
              = Append(stacks[b].textbuffer, OpeningMarkers(cs[i]))
       /\ head' = OpenedAt(cs[i]) + Len(OpeningMarkers(cs[i]))

\* While the speculation cs[i] goes on, the frames it began on are as they
\* were.
ParentKept(i) ==
    (i <= Len(cs') /\ cs'[i] = cs[i]) =>
        SubSeq(stacks', 1, FramesBefore(cs[i]))
            = SubSeq(stacks, 1, FramesBefore(cs[i]))

\* C21: when a speculative wikilink, comment, entity, tag, heading or
\* two-brace template fails, then once the failure is caught the route
\* stack has the frames it had before the speculation began, the tokens and
\* the context of the parent frame are unchanged, the opening markers are
\* added to its pending text, and the scan resumes at the segment right
\* after those markers.
FailedRouteEffect ==
    [][\A i \in 1..Len(cs) :
          Speculation(i) =>
              /\ ParentKept(i)
              /\ (Ended(i) /\ ~Committed(i)) => FailureEffect(i)]_vars

\* A tag whose closing tag does not match has failed inside the parameter
\* of a template, and the template has been returned all the same.
TagFailedInParameter ==
    /\ pc = "done"
    /\ input = Chars("{{t|x<a>b</c>}}")
    /\ out = <<Tok("TemplateOpen"), Text(Chars("t")),
               Tok("TemplateParamSeparator"), Text(Chars("x<a>b</c>")),
               Tok("TemplateClose")>>

\* C22: when the closing quote of a quoted attribute value is followed by a
\* chunk that is not whitespace, the segment of the opening quote is scanned
\* again with the quotes as literal characters, so that the whole value from
\* the opening quote on, both quotes included, is a text of the attribute in
\* the tokens returned.
QuotedValueKept ==
    \A q \in QuotedValues :
        (pc = "done" /\ input = QuotedSource(q) /\ q.rest # <<>>) =>
            \E i \in 1..Len(out) : out[i] = Text(QuotedValue(q))

\* C23: the TagAttrStart of an attribute has as pad_first the whole run of
\* whitespace between the preceding item and the name, as pad_before_eq the
\* whole run between the name and `=` and as pad_after_eq the whole run
\* between `=` and the value, whatever the lengths of the runs.
PaddingRuns ==
    \A p \in Paddings :
        (pc = "done" /\ input = PaddedSource(p)) =>
            out = <<TagOpenOpen(TRUE), Text(Chars("a")),
                    TagAttrStart(Repeat(" ", p.first), Repeat(" ", p.before_eq),
                                 Repeat(" ", p.after_eq)),
                    Text(Chars("b")), Tok("TagAttrEquals"), Text(Chars("c")),
                    TagCloseSelfclose(<<>>)>>

\* The same for runs of at most one space.
SinglePaddingRuns ==
    \A p \in Paddings :
        (pc = "done" /\ input = PaddedSource(p) /\ p.first = 1
            /\ p.before_eq <= 1 /\ p.after_eq <= 1) =>
            out = <<TagOpenOpen(TRUE), Text(Chars("a")),
                    TagAttrStart(Repeat(" ", p.first), Repeat(" ", p.before_eq),
                                 Repeat(" ", p.after_eq)),
                    Text(Chars("b")), Tok("TagAttrEquals"), Text(Chars("c")),
                    TagCloseSelfclose(<<>>)>>

\* A _parse_heading is running.
HeadingScan == \E i \in 1..Len(cs) : cs[i].fn = "_parse_heading"

\* Between two HeadingStart of a list of tokens there is a HeadingEnd.
HeadingsApart(tokens) ==
    \A i, j \in 1..Len(tokens) :
        (i < j /\ tokens[i].type = "HeadingStart"
            /\ tokens[j].type = "HeadingStart") =>
            \E k \in (i + 1)..(j - 1) : tokens[k].type = "HeadingEnd"

\* C24: GL_HEADING is set exactly while a _parse_heading is running; a frame
\* with a heading level in its context exists only while it is set; it is
\* clear when tokenize has returned; and no HeadingStart comes between a
\* HeadingStart and its HeadingEnd, in any frame and in the tokens returned.
HeadingFlagTracksScan ==
    pc \in {"init", "run", "done"} =>
        /\ And(global, GL_HEADING) <=> HeadingScan
        /\ \A i \in 1..Len(stacks) :
              And(stacks[i].context, HEADING) => And(global, GL_HEADING)
        /\ pc = "done" => ~And(global, GL_HEADING)
        /\ \A i \in 1..Len(stacks) : HeadingsApart(stacks[i].stack)
        /\ pc = "done" => HeadingsApart(out)

\* Two headings have been returned, the second scanned after the first was
\* over.
SecondHeadingScanned ==
    /\ pc = "done"
    /\ input = Chars("=a=\n=b=")
    /\ ~And(global, GL_HEADING)
    /\ out = <<HeadingStart(1), Text(Chars("a")), Tok("HeadingEnd"),
               Text(Chars("\n")), HeadingStart(1), Text(Chars("b")),
               Tok("HeadingEnd")>>

\* The level of a heading with several runs: that of its opening run and its
\* last run.
ManyRunsLevel(h) == Min(h.m, Min(h.runs[Len(h.runs)], 6))

ManyRunsExpected(h) ==
    <<HeadingStart(ManyRunsLevel(h)),
      Text(Rep(Chars("="), h.m - ManyRunsLevel(h))
           \o TitleBefore(h, Len(h.runs))
           \o Rep(Chars("="), h.runs[Len(h.runs)] - ManyRunsLevel(h))),
      Tok("HeadingEnd")>>
    \o TextToken(h.after)

ManyRunsResults ==
    {[source |-> ManyRunsSource(h), expected |-> ManyRunsExpected(h)] :
        h \in ManyRuns}

\* _parse_heading has just returned a heading to the root frame.
HeadingJustReturned ==
    /\ pc = "run"
    /\ Len(cs) = 1
    /\ Len(stacks) = 1
    /\ stacks[1].textbuffer = <<>>
    /\ stacks[1].stack # <<>>
    /\ stacks[1].stack[Len(stacks[1].stack)].type = "HeadingEnd"

\* The number of segments of the first line that end with its last "=".
ThroughLastEquals ==
    CHOOSE i \in 1..Len(text) :
        /\ text[i] = <<"=">>
        /\ \A j \in 1..i : text[j] # <<"\n">>
        /\ \A j \in (i + 1)..Len(text) :
              text[j] = <<"=">> => \E k \in (i + 1)..j : text[k] = <<"\n">>

\* C25: of several runs of "=" after the opening run of a heading line the
\* last one before the newline or the end closes the heading: every earlier
\* run is text of the title in full, the level is the least of the opening
\* run, the last run and 6, and when the heading has been written the scan
\* goes on right after the last "=" of the last run.
RightmostClosure ==
    \A r \in ManyRunsResults :
        input = r.source =>
            /\ pc = "done" => out = r.expected
            /\ HeadingJustReturned =>
                  /\ stacks[1].stack = SubSeq(r.expected, 1, 3)
                  /\ head = ThroughLastEquals

\* A heading opened by two "=" whose line has runs of seven, one and two "="
\* has been written with level 2, and the scan is at the newline.
ClosedByLastRun ==
    /\ input = Chars("==a=======b=c==\nx")
    /\ HeadingJustReturned
    /\ stacks[1].stack = <<HeadingStart(2), Text(Chars("a=======b=c")),
                           Tok("HeadingEnd")>>
    /\ _read(Cur, 0) = <<"\n">>

\* The frame below the top one is the frame of a template that has just
\* written a TemplateParamSeparator and pushed the top one: the frame that the
\* running _parse, called by _parse_template, began with.
PushedByTemplate ==
    /\ Len(stacks) >= 2
    /\ Len(cs) >= 2
    /\ TopAct(Cur).fn = "_parse"
    /\ cs[Len(cs) - 1].fn = "_parse_template"
    /\ TopAct(Cur).frames = Len(stacks) - 1
    /\ LET below == stacks[Len(stacks) - 1]
       IN /\ And(below.context, TEMPLATE_PARAM_KEY)
          /\ below.textbuffer = <<>>
          /\ below.stack # <<>>
          /\ below.stack[Len(below.stack)].type = "TemplateParamSeparator"

\* C26: in every frame at every step at most one of TEMPLATE_NAME,
\* TEMPLATE_PARAM_KEY and TEMPLATE_PARAM_VALUE is set, at most one of
\* ARGUMENT_NAME and ARGUMENT_DEFAULT, at most one of WIKILINK_TITLE and
\* WIKILINK_TEXT and at most one heading level; and the frame being scanned
\* has TEMPLATE_PARAM_KEY only if the frame right below it is the frame of
\* the template that pushed it.
SubContextsExclusive ==
    /\ \A i \in 1..Len(stacks) :
          \A flags \in {TEMPLATE, ARGUMENT, WIKILINK, HEADING} :
              Cardinality(stacks[i].context \cap flags) <= 1
    /\ (pc = "run" /\ stacks # <<>> /\ And(_context(Cur), TEMPLATE_PARAM_KEY))
           => PushedByTemplate

\* The key of a later parameter is being scanned: the template's frame went
\* from name to key, to value and to key again.
SecondKeyScanned ==
    /\ pc = "run"
    /\ Len(stacks) >= 2
    /\ And(_context(Cur), TEMPLATE_PARAM_KEY)
    /\ ~And(_context(Cur), TEMPLATE_NAME \cup TEMPLATE_PARAM_VALUE)
    /\ PushedByTemplate
    /\ \E j \in 1..Len(stacks[Len(stacks) - 1].stack) :
          stacks[Len(stacks) - 1].stack[j].type = "TemplateParamEquals"

\* What is returned for a template of TemplateNames: a template when no word
\* follows the newline of its name, and else its source as text.
TemplateNameExpected(n) ==
    IF n.word = <<>>
    THEN <<Tok("TemplateOpen"), Text(n.pre \o Chars("foo\n") \o n.ws)>>
         \o (IF n.param
             THEN <<Tok("TemplateParamSeparator"), Text(Chars("x"))>>
             ELSE <<>>)
         \o <<Tok("TemplateClose")>>
    ELSE <<Text(TemplateNameSource(n))>>

TemplateNameResults ==
    {[source |-> TemplateNameSource(n), expected |-> TemplateNameExpected(n)] :
        n \in TemplateNames}

\* The name of a template is being scanned.
InTemplateName ==
    pc = "run" /\ stacks # <<>> /\ And(_context(Cur), TEMPLATE_NAME)

\* In a name that has had text and then a newline, the segment at the head is
\* the end of the input, or neither whitespace nor one of "{", "}", "[", "|".
TextAfterNewline ==
    /\ InTemplateName
    /\ And(_context(Cur), HAS_TEXT)
    /\ And(_context(Cur), FAIL_ON_TEXT)
    /\ LET this == _read(Cur, 0)
       IN \/ this = END
          \/ ~isspace(this) /\ this \notin {<<"{">>, <<"}">>, <<"[">>, <<"|">>}

\* Whitespace is at the head in a name that has had no text yet.
LeadingWhitespace ==
    /\ InTemplateName
    /\ ~And(_context(Cur), HAS_TEXT \cup FAIL_NEXT)
    /\ _read(Cur, 0) # END
    /\ isspace(_read(Cur, 0))

\* The step ends the _parse of the name and its _parse_template by a failure:
\* the frame of the name and the one below it are popped.
TemplateRouteAborted ==
    /\ pc' = "run"
    /\ cs' = SubSeq(cs, 1, Len(cs) - 2)
    /\ cs[Len(cs) - 1].fn = "_parse_template"
    /\ Len(stacks') = Len(stacks) - 2

\* The step adds the segment at the head to the text of the name.
NameGoesOn ==
    /\ pc' = "run"
    /\ cs' = cs
    /\ head' = head + 1
    /\ stacks' = [stacks EXCEPT ![Len(stacks)].textbuffer =
                                     Append(@, _read(Cur, 0))]

\* C27: in the name of a template, after text and then a newline, a segment
\* that is the end of the input, or is neither whitespace nor one of "{",
\* "}", "[", "|", aborts the template's route; whitespace and newlines
\* before the first text of the name never abort it; so "{{foo\nbar}}" is
\* returned as text, "{{foo\n}}" and "{{foo\n|x}}" as templates.
TemplateNameGuard ==
    [][/\ TextAfterNewline => TemplateRouteAborted
       /\ LeadingWhitespace => NameGoesOn
       /\ pc' = "done" =>
              \A r \in TemplateNameResults :
                  input = r.source => out' = r.expected]_vars

\* "{{foo\nbar}}" has been returned as one text.
WordAfterNewline ==
    /\ pc = "done"
    /\ input = Chars("{{foo\nbar}}")
    /\ out = <<Text(Chars("{{foo\nbar}}"))>>

\* The constructs of a run of n "{" that has m "}" to close them, innermost
\* first, with the braces of either kind that are left over: three of each
\* make an argument, and two of each a template when there are not three.
RECURSIVE Resolve(_, _)
Resolve(n, m) ==
    IF n >= 3 /\ m >= 3
    THEN [Resolve(n - 3, m - 3) EXCEPT !.kinds = <<"Argument">> \o @]
    ELSE IF n >= 2 /\ m >= 2
    THEN [Resolve(n - 2, m - 2) EXCEPT !.kinds = <<"Template">> \o @]
    ELSE [literal |-> n, closers |-> m, kinds |-> <<>>]

OpenOf(kind) ==
    IF kind = "Argument" THEN Tok("ArgumentOpen") ELSE Tok("TemplateOpen")
CloseOf(kind) ==
    IF kind = "Argument" THEN Tok("ArgumentClose") ELSE Tok("TemplateClose")
SeparatorOf(kind) ==
    IF kind = "Argument" THEN Tok("ArgumentSeparator")
    ELSE Tok("TemplateParamSeparator")

\* The tokens of a run: the literal "{" first, the constructs from the
\* outermost in, the name, and the "}" left over as text after them.
BraceRunExpected(r) ==
    LET v == Resolve(r.n, r.m)
        k == Len(v.kinds)
    IN IF k = 0 THEN <<Text(BraceRunSource(r))>>
       ELSE TextToken(Rep(Chars("{"), v.literal))
            \o [i \in 1..k |-> OpenOf(v.kinds[k + 1 - i])]
            \o <<Text(Chars("a"))>>
            \o (IF r.separated
                THEN <<SeparatorOf(v.kinds[1]), Text(Chars("b"))>>
                ELSE <<>>)
            \o [i \in 1..k |-> CloseOf(v.kinds[i])]
            \o TextToken(Rep(Chars("}"), v.closers) \o r.after)

BraceRunResults ==
    {[n |-> r.n, source |-> BraceRunSource(r),
      expected |-> BraceRunExpected(r)] : r \in BraceRuns}

\* The number of "{" in the texts of a list of tokens.
LiteralBraces(tokens) ==
    Cardinality({p \in (1..Len(tokens)) \X (1..Len(input)) :
                    /\ tokens[p[1]].type = "Text"
                    /\ p[2] <= Len(tokens[p[1]].text)
                    /\ tokens[p[1]].text[p[2]] = "{"})

\* The activation cs'[k] has begun in the step.
Begun(k) == k > Len(cs) \/ cs'[k] # cs[k]

\* C28: a run of n >= 2 "{" is resolved from the innermost braces outwards:
\* with three or more braces left an argument is tried, and a template only
\* when that argument has failed; with two left only a template; the braces
\* left over are written as text before the constructs recognised; so n is
\* the number of literal "{" plus three for each ArgumentOpen and two for
\* each TemplateOpen of the run, and "{{{a}}}" is an argument.
BraceAccounting ==
    [][/\ \A k \in 1..Len(cs') :
             /\ (cs'[k].fn = "_parse_argument" /\ Begun(k))
                    => cs'[k].braces >= 3
             /\ (cs'[k].fn = "_parse_template" /\ Begun(k))
                    => \/ cs'[k].braces = 2
                       \/ /\ cs'[k].braces >= 3
                          /\ k <= Len(cs)
                          /\ cs[k].fn = "_parse_argument"
                          /\ cs[k].braces = cs'[k].braces
                          /\ cs[k].reset = cs'[k].reset
       /\ pc' = "done" =>
              \A r \in BraceRunResults :
                  input = r.source =>
                      /\ out' = r.expected
                      /\ r.n = LiteralBraces(out')
                               + 3 * Count(out', 0, Len(out') + 1,
                                           {"ArgumentOpen"})
                               + 2 * Count(out', 0, Len(out') + 1,
                                           {"TemplateOpen"})]_vars

\* Seven "{" closed by five "}" have been returned as two literal "{", a
\* template and the argument inside it.
SevenBraces ==
    /\ pc = "done"
    /\ input = Chars("{{{{{{{a}}}}}")
    /\ out = <<Text(Chars("{{")), Tok("TemplateOpen"), Tok("ArgumentOpen"),
               Text(Chars("a")), Tok("ArgumentClose"), Tok("TemplateClose")>>

=========================================================================
